---- MODULE Spec2Model ----
(***************************************************************************)
(* A state-machine model of ObserveRTC/client-observer-js:                 *)
(*   - AudioDesyncDetector        (detectors/AudioDesyncDetector)          *)
(*   - CongestionDetector         (detectors/CongestionDetector)           *)
(*   - IceTransportMonitor, IceCandidateMonitor and the collection cycle   *)
(*   - cross references between entries and OutboundTrackMonitor.update    *)
(*   - ClientMonitor: timer, collect(), sample(), join(), leave(), close(), *)
(*     its detectors and their listeners                                   *)
(*   - ClientMonitorImpl: collect() with the evaluation of the alerts, and *)
(*     sample(), send(), close() with the accumulator and the Sender       *)
(*   - the mediasoup stats collector (createMediasoupStatsCollector)       *)
(* Optional values (TypeScript `x?: T`) are sequences of length at most 1: *)
(* <<>> is undefined, <<v>> is the value v.                                *)
(***************************************************************************)
EXTENDS Integers, Sequences, FiniteSets, TLC

VARIABLES
    \* --- AudioDesyncDetector and the inbound rtp entry it reads
    adConfig,              \* config.audioDesyncDetector
    inboundRtp,            \* trackMonitor.getInboundRtp()
    startedDesyncAt,       \* AudioDesyncDetector._startedDesyncAt
    prevCorrectedSamples,  \* AudioDesyncDetector._prevCorrectedSamples
    adNow,                 \* Date.now() as the detector sees it
    adLast,                \* the last operation on the detector and what it emitted
    adSeenCorrected,       \* history: the corrected-samples total the previous update read
    adLastEmitted,         \* history: the detector's most recent emission
    \* --- CongestionDetector
    cdStates,              \* CongestionDetector._states
    cdLast                 \* the last update: the peer connections it knew and held congested,
                           \* the order of its input, what it emitted
    ,
    \* --- the storage: ice transport and ice candidate entries, and the collection cycle
    transports,            \* mappedIceTransportMonitors: id -> IceTransportMonitor
    candidates,            \* the ice candidate monitors: id -> IceCandidateMonitor
    cycle,                 \* the collection cycle: open between start and commit, and the ids
                           \* ingested in it (fresh: created or accepted with elapsed > 0,
                           \* stale: accepted with elapsed <= 0)
    stLast,                \* the last operation on the storage
    \* --- cross references between entries
    mappedIceCandidatePairMonitors,  \* peerConnection.mappedIceCandidatePairMonitors
    mappedRemoteInboundRtps,         \* the remote inbound rtp entries, by ssrc
    mappedOutboundRtp,               \* OutboundTrackMonitor.mappedOutboundRtp
    track,                 \* the OutboundTrackMonitor's sums
    xrLast,                \* the last lookup or update and what it returned
    \* --- ClientMonitor
    cmConfig,              \* ClientMonitor._config (collectingPeriodInMs, samplingTick)
    cmClosed,              \* ClientMonitor._closed
    cmTimer,               \* TRUE when ClientMonitor._timer holds a running interval
    actualCollectingTick,  \* ClientMonitor._actualCollectingTick
    inflight,              \* the collect() calls awaiting collectors.collect()
    usingTURN,             \* peerConnections.some(pc => pc.usingTURN), as the storage shows it
    joined,                \* ClientMonitor._joined
    left,                  \* ClientMonitor._left
    cmLast,                \* the last operation on the monitor and the events it emitted
    detectors,             \* ClientMonitor._detectors: the registered detectors and their configs
    listeners,             \* the listeners held: on the monitor's 'stats-collected' (in the
                           \* order of registration), on the detectors' events (those calling
                           \* addIssue), and the constructor's on collectors and storage
    instances,             \* history: per kind of detector, how many the monitor has created
                           \* that are not closed
    callEvents,            \* the custom call events waiting in the sampler
    leftRecorded,          \* history: how many CLIENT_LEFT events the sampler was handed
    completedCollects,     \* history: how many collect() calls completed
    usingTurnEvents,       \* history: the values of the last two 'using-turn' events
    \* --- ClientMonitorImpl
    alerts,                \* ClientMonitorImpl.alerts: the state of each alert
    evaluating,            \* the collect() calls in progress: awaiting the collectors, or
                           \* awaiting the evaluators with the alert states kept before
    evLast,                \* the last step of collect() and the events it emitted
    implClosed,            \* ClientMonitorImpl._closed
    implSender,            \* ClientMonitorImpl._sender: "none" (undefined) or "open"
    samplerClosed,         \* whether the sampler has been closed
    accumulator,           \* the Samples buffered in ClientMonitorImpl._accumulator
    samplesMade,           \* history: how many Samples the accumulator was given
    snLast,                \* the last operation: what it drained and what the Sender sent
    \* --- the mediasoup stats collector
    msClosed,              \* closed
    msTransports,          \* the ids in the transports map, in the order of insertion
    msProducers,           \* the ids in the producers map
    msConsumers,           \* the ids in the consumers map
    addedOutboundTrackIds, \* addedOutboundTrackIds
    mediasoupTransports,   \* the transports of the mediasoup device
    mediasoupEntities,     \* the producer, the consumer and the data producer of mediasoup
    producerPhase,         \* history: how far the call events of the producer have come
    msLast,                \* the last operation or event and the call events it emitted
    \* --- LongPcConnectionEstablishmentDetector and the peer connection it reads
    lpConfig,              \* config.longPcConnectionEstablishmentDetector
    connectionState,       \* peerConnection.connectionState
    connectingStartedAt,   \* peerConnection.connectingStartedAt
    evented,               \* LongPcConnectionEstablishmentDetector._evented
    lpNow,                 \* Date.now() as the detector sees it
    lpLast,                \* the last operation and what it emitted
    lpEpisode,             \* history of the current connecting episode
    lpHistory              \* history: whether an update observed a state other than 'connecting'
                           \* since the last firing; whether a firing observed such a state

adVars == <<adConfig, inboundRtp, startedDesyncAt, prevCorrectedSamples, adNow, adLast,
            adSeenCorrected, adLastEmitted>>
cdVars == <<cdStates, cdLast>>
xrVars == <<mappedIceCandidatePairMonitors, mappedRemoteInboundRtps, mappedOutboundRtp, track,
            xrLast>>
stVars == <<transports, candidates, cycle, stLast, xrVars>>
cmVars == <<cmConfig, cmClosed, cmTimer, actualCollectingTick, inflight, usingTURN,
            joined, left, cmLast, detectors, listeners, instances, callEvents, leftRecorded,
            completedCollects, usingTurnEvents>>

lpVars == <<lpConfig, connectionState, connectingStartedAt, evented, lpNow, lpLast,
            lpEpisode, lpHistory>>

evVars == <<alerts, evaluating, evLast>>

snVars == <<implClosed, implSender, samplerClosed, accumulator, samplesMade, snLast>>

msVars == <<msClosed, msTransports, msProducers, msConsumers, addedOutboundTrackIds,
            mediasoupTransports, mediasoupEntities, producerPhase, msLast>>

vars == <<adVars, cdVars, stVars, cmVars, lpVars, evVars, snVars, msVars>>

None == <<>>
Some(v) == <<v>>
IsSome(o) == o # <<>>
\* `o ?? d`
OrElse(o, d) == IF o = <<>> THEN d ELSE o[1]

(***************************************************************************)
(* AudioDesyncDetector                                                     *)
(***************************************************************************)

\* Largest value of Date.now() the model lets the clock reach.
MaxNow == 2

\* Thresholds are fractions written in thousandths (0.1 is 100).
\* config.audioDesyncDetector: the defaults of ClientMonitor.createAudioDesyncDetector
\* (0.1 / 0.05), the defaults of supplyDefaultConfig (0.2 / 0.1), and a disabled one.
AdConfigs ==
    { [disabled |-> FALSE, fractionalCorrectionAlertOnThreshold |-> 100,
       fractionalCorrectionAlertOffThreshold |-> 50],
      [disabled |-> FALSE, fractionalCorrectionAlertOnThreshold |-> 200,
       fractionalCorrectionAlertOffThreshold |-> 100],
      [disabled |-> TRUE, fractionalCorrectionAlertOnThreshold |-> 100,
       fractionalCorrectionAlertOffThreshold |-> 50] }

\* Values the collected inbound-rtp stats take.
InsertedSamplesValues == {None, Some(0), Some(50), Some(60)}
RemovedSamplesValues == {None, Some(50)}
ReceivingAudioSamplesValues == {None, Some(0), Some(240), Some(450), Some(950), Some(2000)}
RtpKinds == {"none", "audio", "video"}

\* The record of an operation: what update computed with and what it emitted.
AdLastRecord(op, wasDesync, emitted, duration, read, computed, d, seen, prevEmitted, wasStartedAt) ==
    [op |-> op, wasDesync |-> wasDesync, emitted |-> emitted, duration |-> duration,
     read |-> read, computed |-> computed, dCorrected |-> d, seenBefore |-> seen,
     emittedBefore |-> prevEmitted, startedBefore |-> wasStartedAt]

AdLastOf(op, wasDesync, emitted, duration) ==
    AdLastRecord(op, wasDesync, emitted, duration, FALSE, FALSE, 0, 0, "none", None)

InitDesync(configs) ==
    /\ adConfig \in configs
    /\ inboundRtp = [kind |-> "none",
                     insertedSamplesForDeceleration |-> None,
                     removedSamplesForAcceleration |-> None,
                     receivingAudioSamples |-> None,
                     desync |-> FALSE]
    /\ startedDesyncAt = None
    /\ prevCorrectedSamples = 0
    /\ adNow = 1
    /\ adLast = AdLastOf("init", FALSE, {}, None)
    /\ adSeenCorrected = 0
    /\ adLastEmitted = "none"

\* correctedSamples, line 29
correctedSamples(rtp) ==
    OrElse(rtp.insertedSamplesForDeceleration, 0) + OrElse(rtp.removedSamplesForAcceleration, 0)

\* dCorrectedSamples, line 30
dCorrectedSamples(rtp, prev) == correctedSamples(rtp) - prev

\* mutant: the received-samples test of line 32 left out
UpdateComputesMutIgnoresReceived(rtp, cfg, prev) ==
    /\ rtp.kind = "audio"
    /\ ~cfg.disabled
    /\ ~(dCorrectedSamples(rtp, prev) < 1)

\* the early returns of lines 26, 27 and 32: TRUE when update goes on to line 34
UpdateComputes(rtp, cfg, prev) ==
    /\ rtp.kind = "audio"
    /\ ~cfg.disabled
    /\ ~(dCorrectedSamples(rtp, prev) < 1 \/ OrElse(rtp.receivingAudioSamples, 0) < 1)

\* `threshold < fractionalCorrection`, with
\* fractionalCorrection = d / (d + receivingAudioSamples) and the threshold in thousandths.
\* Both sides are small rationals, so the double comparison of the code agrees with the
\* exact one.
ThresholdBelowFraction(threshold, d, r) == threshold * (d + r) < 1000 * d

\* mutant: the comparison made non-strict
ThresholdNotAboveFraction(threshold, d, r) == threshold * (d + r) <= 1000 * d

\* lines 36-41: the new value of inboundRtp.desync
NextDesyncMutOnThreshold(rtp, cfg, prev) ==
    ThresholdBelowFraction(cfg.fractionalCorrectionAlertOnThreshold,
                           dCorrectedSamples(rtp, prev), OrElse(rtp.receivingAudioSamples, 0))

NextDesyncMutNonStrict(rtp, cfg, prev) ==
    IF rtp.desync
    THEN ThresholdNotAboveFraction(cfg.fractionalCorrectionAlertOffThreshold,
                                   dCorrectedSamples(rtp, prev), OrElse(rtp.receivingAudioSamples, 0))
    ELSE ThresholdNotAboveFraction(cfg.fractionalCorrectionAlertOnThreshold,
                                   dCorrectedSamples(rtp, prev), OrElse(rtp.receivingAudioSamples, 0))

NextDesync(rtp, cfg, prev) ==
    IF rtp.desync
    THEN ThresholdBelowFraction(cfg.fractionalCorrectionAlertOffThreshold,
                                dCorrectedSamples(rtp, prev), OrElse(rtp.receivingAudioSamples, 0))
    ELSE ThresholdBelowFraction(cfg.fractionalCorrectionAlertOnThreshold,
                                dCorrectedSamples(rtp, prev), OrElse(rtp.receivingAudioSamples, 0))

\* The storage update between two detector updates: the inbound rtp entry of the track
\* takes the newly collected values (desync is the detector's and is left alone).
AcceptInboundRtp ==
    /\ \E k \in RtpKinds \ {"none"}, ins \in InsertedSamplesValues,
          rem \in RemovedSamplesValues, rcv \in ReceivingAudioSamplesValues :
          inboundRtp' = [inboundRtp EXCEPT !.kind = k,
                                           !.insertedSamplesForDeceleration = ins,
                                           !.removedSamplesForAcceleration = rem,
                                           !.receivingAudioSamples = rcv]
    /\ adLast' = AdLastOf("accept", inboundRtp.desync, {}, None)
    /\ UNCHANGED <<adConfig, startedDesyncAt, prevCorrectedSamples, adNow,
                   adSeenCorrected, adLastEmitted>>
    /\ UNCHANGED <<cdVars, stVars, cmVars, lpVars, evVars, snVars, msVars>>

\* Time passes.
AdTick ==
    /\ adNow < MaxNow
    /\ adNow' = adNow + 1
    /\ adLast' = AdLastOf("tick", inboundRtp.desync, {}, None)
    /\ UNCHANGED <<adConfig, inboundRtp, startedDesyncAt, prevCorrectedSamples,
                   adSeenCorrected, adLastEmitted>>
    /\ UNCHANGED <<cdVars, stVars, cmVars, lpVars, evVars, snVars, msVars>>

\* mutant: 'audio-desync-track' emitted in every update that leaves the track in desync
UpdateEmitsMutWhileOn(wasDesync, desync) ==
    IF ~desync
    THEN IF wasDesync THEN {"issue"} ELSE {}
    ELSE {"audio-desync-track"}

\* lines 43-62: what the update emits, from the state before and after
UpdateEmits(wasDesync, desync) ==
    IF ~desync
    THEN IF wasDesync THEN {"issue"} ELSE {}
    ELSE IF wasDesync THEN {} ELSE {"audio-desync-track"}

\* line 51: `this._startedDesyncAt ? (Date.now() - this._startedDesyncAt) : undefined`
IssueDuration(startedAt, now) ==
    IF IsSome(startedAt) /\ startedAt[1] # 0 THEN Some(now - startedAt[1]) ELSE None

\* lines 26-27: TRUE when update reads the counters of the inbound rtp
UpdateReads(rtp, cfg) == rtp.kind = "audio" /\ ~cfg.disabled

\* AudioDesyncDetector.update()
AudioDesyncDetector_update ==
  /\ UNCHANGED <<cdVars, stVars, cmVars, lpVars, evVars, snVars, msVars>>
  /\ adSeenCorrected' = IF UpdateReads(inboundRtp, adConfig)
                        THEN correctedSamples(inboundRtp) ELSE adSeenCorrected
  /\
    IF ~UpdateComputes(inboundRtp, adConfig, prevCorrectedSamples)
    THEN \* lines 26, 27, 32: return
         /\ adLast' = AdLastRecord("update", inboundRtp.desync, {}, None,
                                   UpdateReads(inboundRtp, adConfig), FALSE,
                                   dCorrectedSamples(inboundRtp, prevCorrectedSamples),
                                   adSeenCorrected, adLastEmitted, startedDesyncAt)
         /\ UNCHANGED <<adConfig, inboundRtp, startedDesyncAt, prevCorrectedSamples, adNow,
                        adLastEmitted>>
    ELSE LET wasDesync == inboundRtp.desync
             desync == NextDesync(inboundRtp, adConfig, prevCorrectedSamples)
             emits == UpdateEmits(wasDesync, desync)
         IN  /\ inboundRtp' = [inboundRtp EXCEPT !.desync = desync]
             /\ adLast' = AdLastRecord("update", wasDesync, emits,
                                       IF "issue" \in emits
                                       THEN IssueDuration(startedDesyncAt, adNow) ELSE None,
                                       TRUE, TRUE,
                                       dCorrectedSamples(inboundRtp, prevCorrectedSamples),
                                       adSeenCorrected, adLastEmitted, startedDesyncAt)
             /\ startedDesyncAt' =
                   IF "issue" \in emits THEN None                           \* line 54
                   ELSE IF "audio-desync-track" \in emits THEN Some(adNow)  \* line 61
                   ELSE startedDesyncAt
             /\ adLastEmitted' = IF emits = {} THEN adLastEmitted
                                 ELSE CHOOSE e \in emits : TRUE
             /\ UNCHANGED <<adConfig, prevCorrectedSamples, adNow>>

NextAudioDesync ==
    \/ AcceptInboundRtp
    \/ AdTick
    \/ AudioDesyncDetector_update

(***************************************************************************)
(* CongestionDetector                                                      *)
(***************************************************************************)

PcIds == {"pc1", "pc2"}

\* Candidate pairs as the storage shows them: stats.availableIncomingBitrate,
\* stats.availableOutgoingBitrate, stats.nominated.  A pair may report no incoming bitrate.
PairValues ==
    { [availableIncomingBitrate |-> Some(1), availableOutgoingBitrate |-> Some(2), nominated |-> TRUE],
      [availableIncomingBitrate |-> None, availableOutgoingBitrate |-> Some(2), nominated |-> TRUE],
      [availableIncomingBitrate |-> Some(3), availableOutgoingBitrate |-> Some(4), nominated |-> FALSE] }

\* The transports (each with its selected pair or none) and the candidate pairs of a peer
\* connection: no pair at all; a nominated pair and no transport with a selected one; a
\* transport whose selected pair is not the nominated one.
PcPairs ==
    { [transports |-> <<None>>, iceCandidatePairs |-> <<>>] }
    \cup { [transports |-> <<None>>, iceCandidatePairs |-> <<p>>] : p \in { q \in PairValues : q.nominated } }
    \cup { [transports |-> <<None, Some(s)>>, iceCandidatePairs |-> <<s, p>>] :
             s \in { q \in PairValues : ~q.nominated },
             p \in { q \in PairValues : q.nominated /\ IsSome(q.availableIncomingBitrate) } }

\* What one peer connection shows in one update: the qualityLimitationReason of each of
\* its outbound rtps, the selected pair of each of its transports, its candidate pairs.
PcSnapshots ==
    { [outboundRtps |-> o, transports |-> c.transports, iceCandidatePairs |-> c.iceCandidatePairs] :
        o \in {<<>>, <<"cpu">>, <<"bandwidth", "cpu">>}, c \in PcPairs }

\* The snapshots each peer connection is given: pc1 always sends and shows every
\* arrangement of pairs, pc2 has no candidate pair yet and may send nothing.
PcSnapshotsOf(id) ==
    IF id = "pc1"
    THEN { x \in PcSnapshots : x.outboundRtps # <<>> }
    ELSE { x \in PcSnapshots : x.iceCandidatePairs = <<>> }

\* Sequences of distinct peer connection ids: the order storage.peerConnections() yields.
PcOrders ==
    {<<>>} \cup { <<a>> : a \in PcIds } \cup { o \in { <<a, b>> : a \in PcIds, b \in PcIds } : o[1] # o[2] }

InitCongestion ==
    /\ cdStates = [id \in {} |-> None]
    /\ cdLast = [op |-> "init", known |-> {}, wasCongested |-> {}, order |-> <<>>,
                 input |-> [id \in {} |-> None],
                 alertStates |-> <<>>, congestion |-> <<>>]

\* lines 53-60
NewPeerConnectionState(id) ==
    [peerConnectionId |-> id, congested |-> FALSE,
     outgoingBitrateBeforeCongestion |-> None, outgoingBitrateAfterCongestion |-> None,
     incomingBitrateBeforeCongestion |-> None, incomingBitrateAfterCongestion |-> None]

\* lines 64-68
RECURSIVE IsCongestedFrom(_, _)
IsCongestedFrom(rtps, i) ==
    IF i > Len(rtps) THEN FALSE
    ELSE (rtps[i] = "bandwidth") \/ IsCongestedFrom(rtps, i + 1)
IsCongested(pc) == IsCongestedFrom(pc.outboundRtps, 1)

\* lines 70-74: the selected pair of the first transport that has one
RECURSIVE FirstSelected(_, _)
FirstSelected(pcTransports, i) ==
    IF i > Len(pcTransports) THEN None
    ELSE IF IsSome(pcTransports[i]) THEN pcTransports[i]
    ELSE FirstSelected(pcTransports, i + 1)

\* line 77: Array.find(pair => pair.stats.nominated === true)
RECURSIVE FindNominated(_, _)
FindNominated(pairs, i) ==
    IF i > Len(pairs) THEN None
    ELSE IF pairs[i].nominated THEN Some(pairs[i])
    ELSE FindNominated(pairs, i + 1)

\* mutant: the nominated pair is looked at first
SelectedCandidatePairMutNominatedFirst(pc) ==
    IF IsSome(FindNominated(pc.iceCandidatePairs, 1))
    THEN FindNominated(pc.iceCandidatePairs, 1)
    ELSE FirstSelected(pc.transports, 1)

\* lines 70-78
SelectedCandidatePair(pc) ==
    IF IsSome(FirstSelected(pc.transports, 1))
    THEN FirstSelected(pc.transports, 1)
    ELSE FindNominated(pc.iceCandidatePairs, 1)

\* `selectedCandidatePair?.stats.<field> ?? old`
PairIncomingOr(pair, old) ==
    IF IsSome(pair) /\ IsSome(pair[1].availableIncomingBitrate)
    THEN pair[1].availableIncomingBitrate ELSE old
PairOutgoingOr(pair, old) ==
    IF IsSome(pair) /\ IsSome(pair[1].availableOutgoingBitrate)
    THEN pair[1].availableOutgoingBitrate ELSE old

\* lines 83-100: the state of one peer connection after the loop body
PcStateAfter(state, pc) ==
    LET pair == SelectedCandidatePair(pc)
        wasCongested == state.congested
        isCongested == IsCongested(pc)
        s1 == IF isCongested
              THEN [state EXCEPT
                      !.incomingBitrateAfterCongestion = PairIncomingOr(pair, state.incomingBitrateAfterCongestion),
                      !.outgoingBitrateAfterCongestion = PairOutgoingOr(pair, state.outgoingBitrateAfterCongestion),
                      !.congested = TRUE]
              ELSE [state EXCEPT
                      !.incomingBitrateBeforeCongestion = PairIncomingOr(pair, state.incomingBitrateBeforeCongestion),
                      !.outgoingBitrateBeforeCongestion = PairOutgoingOr(pair, state.outgoingBitrateBeforeCongestion),
                      !.congested = FALSE]
    IN  IF wasCongested = isCongested
        THEN IF isCongested
             THEN [s1 EXCEPT !.incomingBitrateBeforeCongestion = None,
                             !.outgoingBitrateBeforeCongestion = None]
             ELSE [s1 EXCEPT !.incomingBitrateAfterCongestion = None,
                             !.outgoingBitrateAfterCongestion = None]
        ELSE s1

\* mutant: 'alert-state' is emitted whenever the peer connection is congested
AlertStateEventMutEveryUpdate(wasCongested, isCongested) ==
    IF isCongested THEN <<"on">>
    ELSE IF wasCongested THEN <<"off">>
    ELSE <<>>

\* lines 93-106: what the loop body emits as 'alert-state'
AlertStateEvent(wasCongested, isCongested) ==
    IF wasCongested = isCongested THEN <<>>
    ELSE IF ~wasCongested /\ isCongested THEN <<"on">>
    ELSE <<"off">>

\* mutant: gotCongested is set whenever the peer connection is congested
GotCongestedMutWhileCongested(wasCongested, isCongested) == isCongested

\* lines 101-102: whether the loop body sets gotCongested
GotCongested(wasCongested, isCongested) ==
    ~(wasCongested = isCongested) /\ ~wasCongested /\ isCongested

\* lines 46-107: the loop over the peer connections, from the i-th on.
\* acc = [states, alertStates, gotCongested]
RECURSIVE UpdateLoop(_, _, _, _)
UpdateLoop(order, input, i, acc) ==
    IF i > Len(order) THEN acc
    ELSE LET id == order[i]
             state == IF id \in DOMAIN acc.states THEN acc.states[id]
                      ELSE NewPeerConnectionState(id)
             wasCongested == state.congested
             isCongested == IsCongested(input[id])
             after == PcStateAfter(state, input[id])
         IN  UpdateLoop(order, input, i + 1,
                 [states |-> [x \in DOMAIN acc.states \cup {id} |->
                                 IF x = id THEN after ELSE acc.states[x]],
                  alertStates |-> acc.alertStates \o AlertStateEvent(wasCongested, isCongested),
                  gotCongested |-> acc.gotCongested \/ GotCongested(wasCongested, isCongested)])

\* lines 111-115: the states of the peer connections not visited are deleted
PruneStates(states, visited) == [x \in DOMAIN states \cap visited |-> states[x]]

\* CongestionDetector.update(peerConnections)
CongestionDetector_update ==
    /\ \E order \in PcOrders :
       \E input \in { f \in [{order[i] : i \in 1..Len(order)} -> PcSnapshots] :
                        \A id \in DOMAIN f : f[id] \in PcSnapshotsOf(id) } :
          LET r == UpdateLoop(order, input, 1,
                              [states |-> cdStates, alertStates |-> <<>>, gotCongested |-> FALSE])
          IN  /\ cdStates' = PruneStates(r.states, {order[i] : i \in 1..Len(order)})
              /\ cdLast' = [op |-> "update",
                            known |-> DOMAIN cdStates,
                            wasCongested |-> {id \in DOMAIN cdStates : cdStates[id].congested},
                            order |-> order, input |-> input,
                            alertStates |-> r.alertStates,
                            \* line 109
                            congestion |-> IF r.gotCongested THEN <<r.states>> ELSE <<>>]
    /\ UNCHANGED <<adVars, stVars, cmVars, lpVars, evVars, snVars, msVars>>

NextCongestion ==
    \/ CongestionDetector_update


(***************************************************************************)
(* IceTransportMonitor, IceCandidateMonitor and the collection cycle       *)
(***************************************************************************)

\* Largest timestamp of a collected stats record.
MaxTimestamp == 2

TransportIds == {"t1"}
CandidateIds == {"c1"}

\* <<packetsSent, packetsReceived, bytesSent, bytesReceived, selectedCandidatePairId>> of
\* a collected record; a field the record does not carry is None.
TransportProfiles ==
    { <<Some(0), Some(0), Some(0), Some(0), None>>,
      <<Some(1), Some(1), Some(1), Some(1), Some("p1")>>,
      <<Some(2), Some(2), Some(2), Some(2), Some("p2")>>,
      <<Some(1), None, Some(0), Some(2), None>> }

\* IceTransportStats records (the counters and selectedCandidatePairId; the other
\* optional fields take the same path through Object.assign as selectedCandidatePairId).
TransportStatsValues ==
    { [timestamp |-> t, packetsSent |-> c[1], packetsReceived |-> c[2],
       bytesSent |-> c[3], bytesReceived |-> c[4], selectedCandidatePairId |-> c[5]] :
        t \in 1..MaxTimestamp, c \in TransportProfiles }

\* IceCandidateStats records (address; the other optional fields take the same path).
CandidateStatsValues ==
    [ timestamp : 1..MaxTimestamp, address : {Some("a1"), Some("a2")} ]

InitStorage ==
    /\ transports = [id \in {} |-> None]
    /\ candidates = [id \in {} |-> None]
    /\ cycle = [open |-> FALSE, fresh |-> {}, stale |-> {}]
    /\ stLast = [op |-> "init", kind |-> "none", id |-> "none", stats |-> None,
                 repeat |-> FALSE, stale |-> FALSE, pruned |-> {}]

\* `a && b` on two optional numbers: both defined and non-zero
Truthy(o) == IsSome(o) /\ o[1] # 0

\* Object.assign(this, stats): every field the record carries overwrites the stored one
AssignField(stored, given) == IF IsSome(given) THEN given ELSE stored

ObjectAssignTransport(e, stats) ==
    [e EXCEPT !.timestamp = stats.timestamp,
              !.packetsSent = AssignField(e.packetsSent, stats.packetsSent),
              !.packetsReceived = AssignField(e.packetsReceived, stats.packetsReceived),
              !.bytesSent = AssignField(e.bytesSent, stats.bytesSent),
              !.bytesReceived = AssignField(e.bytesReceived, stats.bytesReceived),
              !.selectedCandidatePairId =
                  AssignField(e.selectedCandidatePairId, stats.selectedCandidatePairId)]

\* IceTransportMonitor.constructor, lines 5 and 43-51
IceTransportMonitor_new(stats) ==
    ObjectAssignTransport(
        [visited |-> TRUE, timestamp |-> stats.timestamp,
         packetsSent |-> None, packetsReceived |-> None,
         bytesSent |-> None, bytesReceived |-> None, selectedCandidatePairId |-> None,
         deltaPacketsSent |-> None, deltaPacketsReceived |-> None,
         deltaBytesSent |-> None, deltaBytesReceived |-> None,
         sendingBitrate |-> None, receivingBitrate |-> None],
        stats)

\* (delta * 8) / elapsedInSec with elapsedInSec = elapsedInMs / 1000, kept as an exact
\* fraction of bits per second
Bitrate(delta, elapsedInMs) == [num |-> delta * 8 * 1000, den |-> elapsedInMs]

\* mutant: the visited flag is set only once the record has passed the elapsed-time check
IceTransportMonitor_acceptMutVisitedLate(e, stats) ==
    IF stats.timestamp - e.timestamp <= 0 THEN e
    ELSE ObjectAssignTransport([e EXCEPT !.visited = TRUE], stats)

\* mutant: a record with non-positive elapsed time sets the deltas to zero
IceTransportMonitor_acceptMutZeroDeltas(e, stats) ==
    IF stats.timestamp - e.timestamp <= 0
    THEN [e EXCEPT !.visited = TRUE,
                   !.deltaPacketsSent = Some(0), !.deltaPacketsReceived = Some(0),
                   !.deltaBytesSent = Some(0), !.deltaBytesReceived = Some(0)]
    ELSE ObjectAssignTransport([e EXCEPT !.visited = TRUE], stats)

\* mutant: Object.assign runs before the elapsed-time check
IceTransportMonitor_acceptMutAssignFirst(e, stats) ==
    ObjectAssignTransport([e EXCEPT !.visited = TRUE], stats)

\* IceTransportMonitor.accept, lines 69-95
IceTransportMonitor_accept(e, stats) ==
    LET elapsedInMs == stats.timestamp - e.timestamp
        v == [e EXCEPT !.visited = TRUE]
    IN  IF elapsedInMs <= 0 THEN v
        ELSE LET sent == Truthy(e.packetsSent) /\ Truthy(stats.packetsSent)
                 rcvd == Truthy(e.packetsReceived) /\ Truthy(stats.packetsReceived)
                 bsent == Truthy(e.bytesSent) /\ Truthy(stats.bytesSent)
                 brcvd == Truthy(e.bytesReceived) /\ Truthy(stats.bytesReceived)
                 d == [v EXCEPT
                         !.deltaPacketsSent =
                             IF sent THEN Some(stats.packetsSent[1] - e.packetsSent[1]) ELSE @,
                         !.deltaPacketsReceived =
                             IF rcvd THEN Some(stats.packetsReceived[1] - e.packetsReceived[1]) ELSE @,
                         !.deltaBytesSent =
                             IF bsent THEN Some(stats.bytesSent[1] - e.bytesSent[1]) ELSE @,
                         !.sendingBitrate =
                             IF bsent THEN Some(Bitrate(stats.bytesSent[1] - e.bytesSent[1], elapsedInMs))
                             ELSE @,
                         !.deltaBytesReceived =
                             IF brcvd THEN Some(stats.bytesReceived[1] - e.bytesReceived[1]) ELSE @,
                         !.receivingBitrate =
                             IF brcvd THEN Some(Bitrate(stats.bytesReceived[1] - e.bytesReceived[1], elapsedInMs))
                             ELSE @]
             IN  ObjectAssignTransport(d, stats)

\* mutant: the getter does not reset the flag
IceTransportMonitor_visitedMutNoReset(e) == [result |-> e.visited, entry |-> e]

\* IceTransportMonitor.visited (getter), lines 53-59: the value read and the entry after
IceTransportMonitor_visited(e) == [result |-> e.visited, entry |-> [e EXCEPT !.visited = FALSE]]

\* IceTransportMonitor.createSample, lines 96-118: the absolute fields of the entry (the
\* deltas and the bitrates are not part of the sample)
IceTransportMonitor_createSample(e) ==
    [timestamp |-> e.timestamp, packetsSent |-> e.packetsSent,
     packetsReceived |-> e.packetsReceived, bytesSent |-> e.bytesSent,
     bytesReceived |-> e.bytesReceived, selectedCandidatePairId |-> e.selectedCandidatePairId]

\* IceCandidateMonitor.createSample, part_002 lines 56-75
IceCandidateMonitor_createSample(e) == [timestamp |-> e.timestamp, address |-> e.address]

\* IceCandidateMonitor.constructor, part_002 lines 5 and 25-31: only id and timestamp
IceCandidateMonitor_new(stats) ==
    [visited |-> TRUE, timestamp |-> stats.timestamp, address |-> None]

\* IceCandidateMonitor.accept, part_002 lines 41-50
IceCandidateMonitor_accept(e, stats) ==
    LET elapsedInMs == stats.timestamp - e.timestamp
        v == [e EXCEPT !.visited = TRUE]
    IN  IF elapsedInMs <= 0 THEN v
        ELSE [v EXCEPT !.timestamp = stats.timestamp,
                       !.address = AssignField(v.address, stats.address)]

\* IceCandidateMonitor.visited (getter), part_002 lines 33-39
IceCandidateMonitor_visited(e) == [result |-> e.visited, entry |-> [e EXCEPT !.visited = FALSE]]

\* start of a collection cycle (ClientMonitorImpl.collect, part_004 line 288)
StatsStorage_start ==
    /\ ~cycle.open
    /\ cycle' = [open |-> TRUE, fresh |-> {}, stale |-> {}]
    /\ stLast' = [op |-> "start", kind |-> "none", id |-> "none", stats |-> None,
                  repeat |-> FALSE, stale |-> FALSE, pruned |-> {}]
    /\ UNCHANGED <<transports, candidates>>
    /\ UNCHANGED <<adVars, cdVars, cmVars, lpVars, xrVars, evVars, snVars, msVars>>

\* the accepted record is the one the previous operation ingested for the same id
IsRepeat(kind, id, stats) ==
    /\ stLast.op \in {"create", "accept"}
    /\ stLast.kind = kind
    /\ stLast.id = id
    /\ stLast.stats = stats

\* ingestion of one transport record: created on an unseen id, else the entry's accept
StatsStorage_acceptTransport ==
    /\ cycle.open
    /\ \E id \in TransportIds, stats \in TransportStatsValues :
          IF id \notin DOMAIN transports
          THEN /\ transports' = [x \in DOMAIN transports \cup {id} |->
                                    IF x = id THEN IceTransportMonitor_new(stats) ELSE transports[x]]
               /\ cycle' = [cycle EXCEPT !.fresh = @ \cup {id}]
               /\ stLast' = [op |-> "create", kind |-> "transport", id |-> id, stats |-> stats,
                             repeat |-> FALSE, stale |-> FALSE, pruned |-> {}]
          ELSE /\ transports' = [transports EXCEPT ![id] = IceTransportMonitor_accept(@, stats)]
               /\ cycle' = IF stats.timestamp - transports[id].timestamp <= 0
                           THEN [cycle EXCEPT !.stale = @ \cup {id}]
                           ELSE [cycle EXCEPT !.fresh = @ \cup {id}]
               /\ stLast' = [op |-> "accept", kind |-> "transport", id |-> id, stats |-> stats,
                             repeat |-> IsRepeat("transport", id, stats),
                             stale |-> stats.timestamp - transports[id].timestamp <= 0,
                             pruned |-> {}]
    /\ UNCHANGED candidates
    /\ UNCHANGED <<adVars, cdVars, cmVars, lpVars, xrVars, evVars, snVars, msVars>>

\* ingestion of one candidate record
StatsStorage_acceptCandidate ==
    /\ cycle.open
    /\ \E id \in CandidateIds, stats \in CandidateStatsValues :
          IF id \notin DOMAIN candidates
          THEN /\ candidates' = [x \in DOMAIN candidates \cup {id} |->
                                    IF x = id THEN IceCandidateMonitor_new(stats) ELSE candidates[x]]
               /\ cycle' = [cycle EXCEPT !.fresh = @ \cup {id}]
               /\ stLast' = [op |-> "create", kind |-> "candidate", id |-> id, stats |-> stats,
                             repeat |-> FALSE, stale |-> FALSE, pruned |-> {}]
          ELSE /\ candidates' = [candidates EXCEPT ![id] = IceCandidateMonitor_accept(@, stats)]
               /\ cycle' = IF stats.timestamp - candidates[id].timestamp <= 0
                           THEN [cycle EXCEPT !.stale = @ \cup {id}]
                           ELSE [cycle EXCEPT !.fresh = @ \cup {id}]
               /\ stLast' = [op |-> "accept", kind |-> "candidate", id |-> id, stats |-> stats,
                             repeat |-> IsRepeat("candidate", id, stats),
                             stale |-> stats.timestamp - candidates[id].timestamp <= 0,
                             pruned |-> {}]
    /\ UNCHANGED transports
    /\ UNCHANGED <<adVars, cdVars, cmVars, lpVars, xrVars, evVars, snVars, msVars>>

\* commit: every entry's visited flag is read (which resets it); the entries whose flag
\* read false are removed
StatsStorage_commit ==
    /\ cycle.open
    /\ LET keptT == { id \in DOMAIN transports : IceTransportMonitor_visited(transports[id]).result }
           keptC == { id \in DOMAIN candidates : IceCandidateMonitor_visited(candidates[id]).result }
       IN  /\ transports' = [id \in keptT |-> IceTransportMonitor_visited(transports[id]).entry]
           /\ candidates' = [id \in keptC |-> IceCandidateMonitor_visited(candidates[id]).entry]
           /\ stLast' = [op |-> "commit", kind |-> "none", id |-> "none", stats |-> None,
                         repeat |-> FALSE, stale |-> FALSE,
                         pruned |-> (DOMAIN transports \ keptT) \cup (DOMAIN candidates \ keptC)]
    /\ cycle' = [cycle EXCEPT !.open = FALSE]
    /\ UNCHANGED <<adVars, cdVars, cmVars, lpVars, xrVars, evVars, snVars, msVars>>

NextStorage ==
    \/ StatsStorage_start
    \/ StatsStorage_acceptTransport
    \/ StatsStorage_acceptCandidate
    \/ StatsStorage_commit

(***************************************************************************)
(* Cross references between entries: getSelectedCandidatePair,             *)
(* getIceTransport, and OutboundTrackMonitor.update summing the layers of  *)
(* a track with the remote inbound entry of each                           *)
(***************************************************************************)

\* the candidate pair ids that are ingested (a transport may also name "p2", never ingested)
PairIds == {"p1"}
Ssrcs == {11, 12}

\* OutboundRtpMonitor entries of a track: <<bitrate, packetRate>>
OutboundRtpValues ==
    { [bitrate |-> Some(4), packetRate |-> Some(2)],
      [bitrate |-> None, packetRate |-> Some(1)] }

\* RemoteInboundRtpMonitor entries (jitter and fractionLost in thousandths)
RemoteInboundRtpValues ==
    { [jitter |-> Some(3), fractionLost |-> Some(5), packetRate |-> Some(1)],
      [jitter |-> None, fractionLost |-> Some(2), packetRate |-> None] }

NoEntries == [id \in {} |-> None]

\* OutboundTrackMonitor fields, lines 38-42: undefined until the first update
NewTrack ==
    [bitrate |-> None, jitter |-> None, fractionLost |-> None,
     sendingPacketRate |-> None, remoteReceivedPacketRate |-> None]

InitCrossReferences ==
    /\ mappedIceCandidatePairMonitors = NoEntries
    /\ mappedRemoteInboundRtps = NoEntries
    /\ mappedOutboundRtp = NoEntries
    /\ track = NewTrack
    /\ xrLast = [op |-> "init", key |-> "", result |-> None, threw |-> FALSE]

\* Map.prototype.get: the entry stored under the key, undefined when there is none
MapGet(map, key) == IF key \in DOMAIN map THEN Some(map[key]) ELSE None

Put(map, key, entry) == [k \in DOMAIN map \cup {key} |-> IF k = key THEN entry ELSE map[k]]
Delete(map, key) == [k \in DOMAIN map \ {key} |-> map[k]]

\* mutant: `x.field`, which throws a TypeError when x is undefined
OptionalChainMutPlainAccess(x, field) ==
    IF IsSome(x) THEN [threw |-> FALSE, value |-> x[1][field]]
    ELSE [threw |-> TRUE, value |-> None]

\* `x?.field`: undefined when x is undefined
OptionalChain(x, field) ==
    IF IsSome(x) THEN [threw |-> FALSE, value |-> x[1][field]]
    ELSE [threw |-> FALSE, value |-> None]

\* IceTransportMonitor.getSelectedCandidatePair, lines 65-67
IceTransportMonitor_getSelectedCandidatePair(e, pairs) ==
    MapGet(pairs, OrElse(e.selectedCandidatePairId, ""))

\* IceCandidateMonitor.getIceTransport, part_002 lines 52-54
IceCandidateMonitor_getIceTransport(transportId, mapped) ==
    MapGet(mapped, OrElse(transportId, ""))

\* OutboundRtpMonitor.getRemoteInboundRtp: the remote inbound entry of the same ssrc
OutboundRtpMonitor_getRemoteInboundRtp(ssrc, remotes) == MapGet(remotes, ssrc)

\* One pass of the loop of update, lines 51-57: what the layer adds to each sum, and
\* whether reading it threw
LayerTerms(outboundRtp, remoteInboundRtp) ==
    LET jitter == OptionalChain(remoteInboundRtp, "jitter")
        fractionLost == OptionalChain(remoteInboundRtp, "fractionLost")
        packetRate == OptionalChain(remoteInboundRtp, "packetRate")
    IN  [threw |-> jitter.threw \/ fractionLost.threw \/ packetRate.threw,
         bitrate |-> OrElse(outboundRtp.bitrate, 0),
         jitter |-> OrElse(jitter.value, 0),
         fractionLost |-> OrElse(fractionLost.value, 0),
         sendingPacketRate |-> OrElse(outboundRtp.packetRate, 0),
         remoteReceivedPacketRate |-> OrElse(packetRate.value, 0)]

\* lines 45-57: the sums start at 0 and every layer adds its terms; a throwing pass ends
\* the loop with the sums reached so far
RECURSIVE SumLayers(_, _, _, _)
SumLayers(sums, todo, outbounds, remotes) ==
    IF todo = {} \/ sums.threw THEN sums
    ELSE LET ssrc == CHOOSE s \in todo : \A other \in todo : s <= other
             terms == LayerTerms(outbounds[ssrc],
                                 OutboundRtpMonitor_getRemoteInboundRtp(ssrc, remotes))
         IN  SumLayers(
                 IF terms.threw THEN [sums EXCEPT !.threw = TRUE]
                 ELSE [sums EXCEPT !.bitrate = @ + terms.bitrate,
                                   !.jitter = @ + terms.jitter,
                                   !.fractionLost = @ + terms.fractionLost,
                                   !.sendingPacketRate = @ + terms.sendingPacketRate,
                                   !.remoteReceivedPacketRate = @ + terms.remoteReceivedPacketRate],
                 todo \ {ssrc}, outbounds, remotes)

XrFrame == UNCHANGED <<transports, candidates, cycle, stLast>>

\* a candidate pair entry is ingested, or pruned
AcceptCandidatePair ==
    /\ \E id \in PairIds :
          /\ mappedIceCandidatePairMonitors' = Put(mappedIceCandidatePairMonitors, id, [id |-> id])
          /\ xrLast' = [op |-> "accept", key |-> "", result |-> None, threw |-> FALSE]
    /\ UNCHANGED <<mappedRemoteInboundRtps, mappedOutboundRtp, track>>
    /\ XrFrame
    /\ UNCHANGED <<adVars, cdVars, cmVars, lpVars, evVars, snVars, msVars>>

PruneCandidatePair ==
    /\ \E id \in DOMAIN mappedIceCandidatePairMonitors :
          /\ mappedIceCandidatePairMonitors' = Delete(mappedIceCandidatePairMonitors, id)
          /\ xrLast' = [op |-> "prune", key |-> "", result |-> None, threw |-> FALSE]
    /\ UNCHANGED <<mappedRemoteInboundRtps, mappedOutboundRtp, track>>
    /\ XrFrame
    /\ UNCHANGED <<adVars, cdVars, cmVars, lpVars, evVars, snVars, msVars>>

\* an outbound rtp entry of the track is ingested
AcceptOutboundRtp ==
    /\ \E ssrc \in Ssrcs, stats \in OutboundRtpValues :
          mappedOutboundRtp' = Put(mappedOutboundRtp, ssrc, stats)
    /\ xrLast' = [op |-> "accept", key |-> "", result |-> None, threw |-> FALSE]
    /\ UNCHANGED <<mappedIceCandidatePairMonitors, mappedRemoteInboundRtps, track>>
    /\ XrFrame
    /\ UNCHANGED <<adVars, cdVars, cmVars, lpVars, evVars, snVars, msVars>>

\* a remote inbound rtp entry is ingested, or pruned
AcceptRemoteInboundRtp ==
    /\ \E ssrc \in Ssrcs, stats \in RemoteInboundRtpValues :
          mappedRemoteInboundRtps' = Put(mappedRemoteInboundRtps, ssrc, stats)
    /\ xrLast' = [op |-> "accept", key |-> "", result |-> None, threw |-> FALSE]
    /\ UNCHANGED <<mappedIceCandidatePairMonitors, mappedOutboundRtp, track>>
    /\ XrFrame
    /\ UNCHANGED <<adVars, cdVars, cmVars, lpVars, evVars, snVars, msVars>>

PruneRemoteInboundRtp ==
    /\ \E ssrc \in DOMAIN mappedRemoteInboundRtps :
          mappedRemoteInboundRtps' = Delete(mappedRemoteInboundRtps, ssrc)
    /\ xrLast' = [op |-> "prune", key |-> "", result |-> None, threw |-> FALSE]
    /\ UNCHANGED <<mappedIceCandidatePairMonitors, mappedOutboundRtp, track>>
    /\ XrFrame
    /\ UNCHANGED <<adVars, cdVars, cmVars, lpVars, evVars, snVars, msVars>>

\* getSelectedCandidatePair() is called on a transport entry
GetSelectedCandidatePair ==
    /\ \E id \in DOMAIN transports :
          xrLast' = [op |-> "getSelectedCandidatePair",
                     key |-> OrElse(transports[id].selectedCandidatePairId, ""),
                     result |-> IceTransportMonitor_getSelectedCandidatePair(
                                    transports[id], mappedIceCandidatePairMonitors),
                     threw |-> FALSE]
    /\ UNCHANGED <<mappedIceCandidatePairMonitors, mappedRemoteInboundRtps, mappedOutboundRtp, track>>
    /\ XrFrame
    /\ UNCHANGED <<adVars, cdVars, cmVars, lpVars, evVars, snVars, msVars>>

\* getIceTransport() is called on a candidate entry that holds the given transportId
GetIceTransport ==
    /\ \E transportId \in {None, Some("t1"), Some("t2")} :
          LET found == IceCandidateMonitor_getIceTransport(transportId, transports)
          IN  xrLast' = [op |-> "getIceTransport", key |-> OrElse(transportId, ""),
                         result |-> IF IsSome(found) THEN Some([id |-> OrElse(transportId, "")])
                                    ELSE None,
                         threw |-> FALSE]
    /\ UNCHANGED <<mappedIceCandidatePairMonitors, mappedRemoteInboundRtps, mappedOutboundRtp, track>>
    /\ XrFrame
    /\ UNCHANGED <<adVars, cdVars, cmVars, lpVars, evVars, snVars, msVars>>

\* OutboundTrackMonitor.update, part_001 lines 44-60
OutboundTrackMonitor_update ==
    /\ LET sums == SumLayers([threw |-> FALSE, bitrate |-> 0, jitter |-> 0, fractionLost |-> 0,
                              sendingPacketRate |-> 0, remoteReceivedPacketRate |-> 0],
                             DOMAIN mappedOutboundRtp, mappedOutboundRtp, mappedRemoteInboundRtps)
       IN  /\ track' = [bitrate |-> Some(sums.bitrate), jitter |-> Some(sums.jitter),
                        fractionLost |-> Some(sums.fractionLost),
                        sendingPacketRate |-> Some(sums.sendingPacketRate),
                        remoteReceivedPacketRate |-> Some(sums.remoteReceivedPacketRate)]
           /\ xrLast' = [op |-> "update", key |-> "", result |-> None, threw |-> sums.threw]
    /\ UNCHANGED <<mappedIceCandidatePairMonitors, mappedRemoteInboundRtps, mappedOutboundRtp>>
    /\ XrFrame
    /\ UNCHANGED <<adVars, cdVars, cmVars, lpVars, evVars, snVars, msVars>>

NextLookup ==
    \/ AcceptCandidatePair
    \/ PruneCandidatePair
    \/ AcceptOutboundRtp
    \/ AcceptRemoteInboundRtp
    \/ PruneRemoteInboundRtp
    \/ GetSelectedCandidatePair
    \/ GetIceTransport
    \/ OutboundTrackMonitor_update

(***************************************************************************)
(* ClientMonitor: the timer, collect(), close()                            *)
(***************************************************************************)

\* Largest number of collect() calls the model lets wait for collectors.collect() at once.
MaxInFlight == 2

\* Largest samplingTick a configuration sets.
MaxSamplingTick == 2

\* Largest number of custom call events the model lets wait in the sampler.
MaxCallEvents == 2

\* Largest number of collect() calls the model lets complete.
MaxCollects == 4

\* collectingPeriodInMs: unset, 0, or a period
CollectingPeriods == {None, Some(0), Some(1000)}
\* samplingTick: unset, 0, or a number of collects
SamplingTicks == {None} \cup { Some(n) : n \in 0..MaxSamplingTick }

\* _setupTimer, lines 941-950: the old interval is cleared; a new one runs iff
\* collectingPeriodInMs is truthy
SetupTimer(config) == Truthy(config.collectingPeriodInMs)

\* _detectors, line 135
NoDetectors == [name \in {} |-> None]
RegisterDetector(registered, name, config) ==
    [x \in DOMAIN registered \cup {name} |-> IF x = name THEN config ELSE registered[x]]

\* constructor, lines 189-193: the subscriptions the monitor takes on its collectors and
\* its storage.  They are released by the 'close' listener of lines 182-188.
ConstructorWiring == {"custom-call-event", "peer-connection-added", "middlewares"}

\* The listeners a monitor holds after lines 182-193: none on 'stats-collected'.
NoListeners == [statsCollected |-> <<>>, creatingIssues |-> {}, wiring |-> ConstructorWiring]

\* `this.on('stats-collected', onUpdate)` and `detector.on(..., onCongestion / onDesync)`,
\* lines 432-433 and 480-482; the detector's listener calls addIssue iff
\* createIssueOnDetection was given
AddListener(held, name, createIssue) ==
    [held EXCEPT !.statsCollected = Append(@, name),
                 !.creatingIssues = IF createIssue THEN @ \cup {name} ELSE @]

\* The configs createAudioDesyncDetector is called with (thresholds in thousandths, None
\* for a threshold left out): the one of _setupDetectors, an empty one, a stricter one,
\* and two whose alert-on threshold lies below the alert-off threshold.
DefaultCreateConfig ==
    [fractionalCorrectionAlertOnThreshold |-> Some(100), fractionalCorrectionAlertOffThreshold |-> Some(50)]
CreateConfigs ==
    { DefaultCreateConfig,
      [fractionalCorrectionAlertOnThreshold |-> None, fractionalCorrectionAlertOffThreshold |-> None],
      [fractionalCorrectionAlertOnThreshold |-> Some(200), fractionalCorrectionAlertOffThreshold |-> Some(100)],
      [fractionalCorrectionAlertOnThreshold |-> Some(50), fractionalCorrectionAlertOffThreshold |-> Some(100)],
      [fractionalCorrectionAlertOnThreshold |-> None, fractionalCorrectionAlertOffThreshold |-> Some(200)] }

\* lines 448-451: the thresholds the detector is constructed with (`?? 0.1`, `?? 0.05`)
AudioDesyncThresholds(config) ==
    [fractionalCorrectionAlertOnThreshold |->
        IF IsSome(config) THEN OrElse(config[1].fractionalCorrectionAlertOnThreshold, 100) ELSE 100,
     fractionalCorrectionAlertOffThreshold |->
        IF IsSome(config) THEN OrElse(config[1].fractionalCorrectionAlertOffThreshold, 50) ELSE 50]

\* `new CongestionDetector()`, line 381: no configuration, no peer connection known
CongestionDetector_new == [states |-> {}]

\* createCongestionDetector, lines 371-436, on the registry and the listeners: an
\* existing detector is returned, otherwise one is constructed, subscribed and registered
CreateCongestionDetector(m, createIssue) ==
    IF "CongestionDetector" \in DOMAIN m.detectors THEN m
    ELSE [detectors |-> RegisterDetector(m.detectors, "CongestionDetector", CongestionDetector_new),
          listeners |-> AddListener(m.listeners, "CongestionDetector", createIssue)]

\* createAudioDesyncDetector, lines 441-487, on the registry and the listeners
CreateAudioDesyncDetector(m, config, createIssue) ==
    IF "AudioDesyncDetector" \in DOMAIN m.detectors THEN m
    ELSE [detectors |-> RegisterDetector(m.detectors, "AudioDesyncDetector",
                                         AudioDesyncThresholds(config)),
          listeners |-> AddListener(m.listeners, "AudioDesyncDetector", createIssue)]

\* config.detectIssues, as far as the two modelled detectors go
DetectIssuesSettings == [congestion : BOOLEAN, audioDesync : BOOLEAN]

\* _setupDetectors, lines 884-905: the congestion detector first, then the audio desync
\* detector, each creating issues on detection
SetupDetectors(settings) ==
    LET constructed == [detectors |-> NoDetectors, listeners |-> NoListeners]
        withCongestion == IF settings.congestion
                          THEN CreateCongestionDetector(constructed, TRUE) ELSE constructed
    IN  IF settings.audioDesync
        THEN CreateAudioDesyncDetector(withCongestion, Some(DefaultCreateConfig), TRUE)
        ELSE withCongestion

\* The detectors ClientMonitor creates, by the name of their class
DetectorKinds ==
    {"CongestionDetector", "AudioDesyncDetector", "VideoFreezesDetector",
     "CpuPerformanceDetector", "StuckedInboundTrackDetector",
     "LongPcConnectionEstablishmentDetector"}

\* constructor, lines 147-198, for a config among configs and a detectIssues among settings
InitMonitorWith(configs, settings) ==
    /\ cmConfig \in configs
    /\ cmClosed = FALSE
    /\ cmTimer = SetupTimer(cmConfig)
    /\ actualCollectingTick = 0
    /\ inflight = <<>>
    /\ usingTURN = FALSE
    /\ joined = FALSE
    /\ left = FALSE
    /\ cmLast = [op |-> "init", pending |-> 0, emitted |-> <<>>]
    /\ \E s \in settings :
          /\ detectors = SetupDetectors(s).detectors
          /\ listeners = SetupDetectors(s).listeners
    /\ instances = [kind \in DetectorKinds |-> IF kind \in DOMAIN detectors THEN 1 ELSE 0]
    /\ callEvents = <<>>
    /\ leftRecorded = 0
    /\ completedCollects = 0
    /\ usingTurnEvents = [previous |-> None, last |-> None]

\* constructor, lines 147-198: without detectors or with the audio desync detector
InitMonitor ==
    InitMonitorWith([collectingPeriodInMs : CollectingPeriods, samplingTick : SamplingTicks],
                    { s \in DetectIssuesSettings : ~s.congestion })

\* A monitor that is constructed and never used.
InitMonitorIdle ==
    InitMonitorWith({[collectingPeriodInMs |-> None, samplingTick |-> None]},
                    {[congestion |-> FALSE, audioDesync |-> FALSE]})

\* collect(), lines 227-230: up to the await.  On a closed monitor it throws (the
\* timer's callback logs the rejection).
CollectStart(by) ==
    /\ inflight' = IF cmClosed THEN inflight
                   ELSE Append(inflight, [by |-> by, wasUsingTURN |-> usingTURN])
    /\ cmLast' = [op |-> by, pending |-> Len(inflight), emitted |-> <<>>]
    /\ UNCHANGED <<cmConfig, cmClosed, cmTimer, actualCollectingTick, usingTURN, joined, left,
                   detectors, listeners, instances, callEvents, leftRecorded, completedCollects, usingTurnEvents>>

\* the interval set by _setupTimer fires, lines 947-949
TimerFires ==
    /\ cmTimer
    /\ Len(inflight) < MaxInFlight
    /\ CollectStart("timer")
    /\ UNCHANGED <<adVars, cdVars, stVars, lpVars, evVars, snVars, msVars>>

\* the application calls collect()
ClientMonitor_collect ==
    /\ Len(inflight) < MaxInFlight
    /\ CollectStart("call")
    /\ UNCHANGED <<adVars, cdVars, stVars, lpVars, evVars, snVars, msVars>>

RemoveAt(seq, i) == [j \in 1..(Len(seq) - 1) |-> IF j < i THEN seq[j] ELSE seq[j + 1]]

\* mutant: `samplingTick < ++_actualCollectingTick`
SamplingDueMutStrict(config, tick) ==
    Truthy(config.samplingTick) /\ config.samplingTick[1] < tick + 1

\* line 241: `samplingTick && samplingTick <= ++_actualCollectingTick`
SamplingDue(config, tick) ==
    Truthy(config.samplingTick) /\ config.samplingTick[1] <= tick + 1

\* sample(), lines 254-269, as far as the events go: nothing on a closed monitor
SampleEvents(closed) == IF closed THEN <<>> ELSE <<"sample-created">>

\* Sampler.addCustomCallEvent: the event waits for the next sample
Sampler_addCustomCallEvent(events, name) == Append(events, name)

\* Sampler.createClientSample: the sample carries the waiting call events
Sampler_createClientSample(events) == [customCallEvents |-> events]

\* Sampler.clear: no call event waits
Sampler_clear == <<>>

\* join(), lines 271-281: once only, CLIENT_JOINED is handed to the sampler
Join(m) ==
    IF m.joined THEN m
    ELSE [m EXCEPT !.joined = TRUE,
                   !.callEvents = Sampler_addCustomCallEvent(@, "CLIENT_JOINED")]

\* leave(), lines 283-293: it returns while _left is false (line 284); otherwise _left
\* is set and CLIENT_LEFT is handed to the sampler
Leave(m) ==
    IF ~m.left THEN m
    ELSE [m EXCEPT !.left = TRUE,
                   !.callEvents = Sampler_addCustomCallEvent(@, "CLIENT_LEFT"),
                   !.leftRecorded = @ + 1]

\* sample(), lines 254-269: nothing on a closed monitor; otherwise the monitor joins if
\* it has not, the sampler builds the sample and 'sample-created' is emitted
Sample(m) ==
    IF m.closed THEN [m EXCEPT !.sample = None, !.emitted = SampleEvents(TRUE)]
    ELSE LET j == Join(m)
         IN  [j EXCEPT !.sample = Some(Sampler_createClientSample(j.callEvents)),
                       !.callEvents = <<>>,
                       !.emitted = SampleEvents(FALSE)]

\* The monitor's fields join(), leave() and sample() work on.
Fields ==
    [closed |-> cmClosed, joined |-> joined, left |-> left, callEvents |-> callEvents,
     leftRecorded |-> leftRecorded, sample |-> None, emitted |-> <<>>]

\* What a 'stats-collected' listener of a detector does when invoked: its update finds
\* nothing to report, or it reports and the detector's listener calls addIssue, or an
\* error is thrown out of the listener.
DetectorOutcomes == {"quiet", "issue", "throws"}

\* emit('stats-collected'), lines 234-237: the listeners are invoked in the order of
\* their registration; an error thrown by one leaves emit, so the later ones are not
\* invoked.  A listener reports an issue only if it was created with createIssueOnDetection.
Outcomes(held) ==
    { o \in [DOMAIN held.statsCollected -> DetectorOutcomes] :
        /\ \A j \in DOMAIN o : o[j] = "issue" => held.statsCollected[j] \in held.creatingIssues
        /\ \A j, k \in DOMAIN o : (j < k /\ o[j] = "throws") => o[k] = "quiet" }

Threw(outcome) == \E j \in DOMAIN outcome : outcome[j] = "throws"

\* The detector updates of one emit('stats-collected') and the addIssue calls (lines
\* 347-359) they make, in order, from the j-th listener on
RECURSIVE ListenerSteps(_, _, _)
ListenerSteps(names, outcome, j) ==
    IF j > Len(names) THEN <<>>
    ELSE <<[step |-> "update", by |-> names[j]]>>
         \o (IF outcome[j] = "issue" THEN <<[step |-> "addIssue", by |-> names[j]]>> ELSE <<>>)
         \o (IF outcome[j] = "throws" THEN <<>> ELSE ListenerSteps(names, outcome, j + 1))

\* mutant: the issues are not handed to the sampler
AddIssuesMutNotRecorded(events, steps) == events

\* addIssue, lines 347-359: CLIENT_ISSUE is handed to the sampler, once per call
RECURSIVE AddIssues(_, _)
AddIssues(events, steps) ==
    IF steps = <<>> THEN events
    ELSE AddIssues(IF Head(steps).step = "addIssue"
                   THEN Sampler_addCustomCallEvent(events, "CLIENT_ISSUE") ELSE events,
                   Tail(steps))

\* collect(), lines 231-251: collectors.collect() has resolved for the i-th pending call.
\* (The history completedCollects is kept by the specification that counts, see below.)
\* The storage is updated with the collected stats, which show TURN in use or not;
\* 'stats-collected' is emitted; if no listener threw, the tick is counted, sample() is
\* called when due, 'using-turn' is emitted on a change and the call returns.  An error
\* thrown by a listener leaves emit and collect(): the call rejects.
CollectResolves ==
    /\ \E i \in DOMAIN inflight, isUsingTURN \in BOOLEAN, outcome \in Outcomes(listeners) :
          LET due == SamplingDue(cmConfig, actualCollectingTick)
              updates == ListenerSteps(listeners.statsCollected, outcome, 1)
              issued == [Fields EXCEPT !.callEvents = AddIssues(@, updates)]
              sampled == IF due /\ ~Threw(outcome) THEN Sample(issued) ELSE issued
              turned == inflight[i].wasUsingTURN # isUsingTURN
          IN  /\ Len(sampled.callEvents) <= MaxCallEvents
              /\ inflight' = RemoveAt(inflight, i)
              /\ usingTURN' = isUsingTURN
              /\ actualCollectingTick' =
                    IF Threw(outcome) \/ ~Truthy(cmConfig.samplingTick) THEN actualCollectingTick
                    ELSE IF due THEN 0 ELSE actualCollectingTick + 1
              /\ joined' = sampled.joined
              /\ callEvents' = sampled.callEvents
              /\ cmLast' = [op |-> "resolved", pending |-> Len(inflight),
                            threw |-> Threw(outcome),
                            returned |-> ~Threw(outcome),
                            steps |-> <<[step |-> "storage.update", by |-> "ClientMonitor"]>>
                                \o updates
                                \o (IF due /\ ~Threw(outcome)
                                    THEN <<[step |-> "sample", by |-> "ClientMonitor"]>> ELSE <<>>)
                                \o (IF turned /\ ~Threw(outcome)
                                    THEN <<[step |-> "using-turn", by |-> "ClientMonitor"]>> ELSE <<>>),
                            sample |-> sampled.sample,
                            emitted |-> <<"stats-collected">>
                                \o sampled.emitted
                                \o (IF turned /\ ~Threw(outcome)
                                    THEN <<IF isUsingTURN THEN "using-turn:true"
                                           ELSE "using-turn:false">>
                                    ELSE <<>>)]
    /\ UNCHANGED <<cmConfig, cmClosed, cmTimer, left, detectors, listeners, instances, leftRecorded>>
    /\ UNCHANGED <<adVars, cdVars, stVars, lpVars, evVars, snVars, msVars>>

\* The history of completed calls: a collect() call that resolved and was not left by an
\* error is counted, up to MaxCollects
CountedCollectResolves ==
    /\ completedCollects < MaxCollects
    /\ CollectResolves
    /\ completedCollects' = IF cmLast'.returned THEN completedCollects + 1 ELSE completedCollects
    /\ UNCHANGED usingTurnEvents

UncountedCollectResolves ==
    /\ CollectResolves
    /\ UNCHANGED <<completedCollects, usingTurnEvents>>

\* The history of the 'using-turn' events: the value a collect() call emitted (line 249)
\* is kept next to the value of the event before it
TurnRecordedCollectResolves ==
    /\ CollectResolves
    /\ usingTurnEvents' =
          IF \E k \in DOMAIN cmLast'.emitted : cmLast'.emitted[k] = "using-turn:true"
          THEN [previous |-> usingTurnEvents.last, last |-> Some(TRUE)]
          ELSE IF \E k \in DOMAIN cmLast'.emitted : cmLast'.emitted[k] = "using-turn:false"
          THEN [previous |-> usingTurnEvents.last, last |-> Some(FALSE)]
          ELSE usingTurnEvents
    /\ UNCHANGED completedCollects

\* collectors.collect() has rejected for the i-th pending call: collect() rejects
CollectRejects ==
    /\ \E i \in DOMAIN inflight :
          /\ inflight' = RemoveAt(inflight, i)
          /\ cmLast' = [op |-> "rejected", pending |-> Len(inflight), emitted |-> <<>>]
    /\ UNCHANGED <<cmConfig, cmClosed, cmTimer, actualCollectingTick, usingTURN, joined, left,
                   detectors, listeners, instances, callEvents, leftRecorded, completedCollects, usingTurnEvents>>
    /\ UNCHANGED <<adVars, cdVars, stVars, lpVars, evVars, snVars, msVars>>

\* close(), lines 208-225: the interval is cleared, leave() is called if _left is false,
\* sample() is called if samplingTick is positive (it returns at once, the monitor being
\* closed by then), storage, collectors and sampler are cleared, leaving no peer
\* connection and no waiting call event.  'close' is not emitted and _detectors is not
\* touched.
ClientMonitor_close ==
    /\ IF cmClosed
       THEN /\ cmLast' = [op |-> "close", pending |-> Len(inflight), emitted |-> <<>>]
            /\ UNCHANGED <<cmClosed, cmTimer, usingTURN, left, callEvents, leftRecorded>>
       ELSE LET closing == [Fields EXCEPT !.closed = TRUE]
                gone == IF ~closing.left THEN Leave(closing) ELSE closing
                sampled == IF Truthy(cmConfig.samplingTick) /\ 0 < cmConfig.samplingTick[1]
                           THEN Sample(gone) ELSE gone
            IN  /\ cmClosed' = TRUE
                /\ cmTimer' = FALSE
                /\ usingTURN' = FALSE
                /\ left' = sampled.left
                /\ leftRecorded' = sampled.leftRecorded
                /\ callEvents' = Sampler_clear
                /\ cmLast' = [op |-> "close", pending |-> Len(inflight),
                              emitted |-> sampled.emitted]
    /\ UNCHANGED <<cmConfig, actualCollectingTick, inflight, joined, detectors, listeners, instances,
                   completedCollects, usingTurnEvents>>
    /\ UNCHANGED <<adVars, cdVars, stVars, lpVars, evVars, snVars, msVars>>

\* the application calls join(), lines 271-281
ClientMonitor_join ==
    /\ joined \/ Len(callEvents) < MaxCallEvents
    /\ joined' = Join(Fields).joined
    /\ callEvents' = Join(Fields).callEvents
    /\ cmLast' = [op |-> "join", pending |-> Len(inflight), emitted |-> <<>>]
    /\ UNCHANGED <<cmConfig, cmClosed, cmTimer, actualCollectingTick, inflight, usingTURN, left,
                   detectors, listeners, instances, leftRecorded, completedCollects, usingTurnEvents>>
    /\ UNCHANGED <<adVars, cdVars, stVars, lpVars, evVars, snVars, msVars>>

\* the application calls leave(), lines 283-293
ClientMonitor_leave ==
    /\ left' = Leave(Fields).left
    /\ callEvents' = Leave(Fields).callEvents
    /\ leftRecorded' = Leave(Fields).leftRecorded
    /\ cmLast' = [op |-> "leave", pending |-> Len(inflight), emitted |-> <<>>]
    /\ UNCHANGED <<cmConfig, cmClosed, cmTimer, actualCollectingTick, inflight, usingTURN,
                   joined, detectors, listeners, instances, completedCollects, usingTurnEvents>>
    /\ UNCHANGED <<adVars, cdVars, stVars, lpVars, evVars, snVars, msVars>>

\* the application calls sample(), lines 254-269
ClientMonitor_sample ==
    /\ joined' = Sample(Fields).joined
    /\ callEvents' = Sample(Fields).callEvents
    /\ cmLast' = [op |-> "sample", pending |-> Len(inflight),
                  emitted |-> Sample(Fields).emitted, sample |-> Sample(Fields).sample]
    /\ UNCHANGED <<cmConfig, cmClosed, cmTimer, actualCollectingTick, inflight, usingTURN, left,
                   detectors, listeners, instances, leftRecorded, completedCollects, usingTurnEvents>>
    /\ UNCHANGED <<adVars, cdVars, stVars, lpVars, evVars, snVars, msVars>>

\* setCollectingPeriod, lines 361-364
ClientMonitor_setCollectingPeriod ==
    /\ \E period \in CollectingPeriods \ {None} :
          /\ cmConfig' = [cmConfig EXCEPT !.collectingPeriodInMs = period]
          /\ cmTimer' = SetupTimer(cmConfig')
    /\ cmLast' = [op |-> "setCollectingPeriod", pending |-> Len(inflight), emitted |-> <<>>]
    /\ UNCHANGED <<cmClosed, actualCollectingTick, inflight, usingTURN, joined, left,
                   detectors, listeners, instances, callEvents, leftRecorded, completedCollects, usingTurnEvents>>
    /\ UNCHANGED <<adVars, cdVars, stVars, lpVars, evVars, snVars, msVars>>

\* setSamplingTick, lines 366-369
ClientMonitor_setSamplingTick ==
    /\ \E tick \in SamplingTicks \ {None} :
          /\ cmConfig' = [cmConfig EXCEPT !.samplingTick = tick]
          /\ cmTimer' = SetupTimer(cmConfig')
    /\ cmLast' = [op |-> "setSamplingTick", pending |-> Len(inflight), emitted |-> <<>>]
    /\ UNCHANGED <<cmClosed, actualCollectingTick, inflight, usingTURN, joined, left,
                   detectors, listeners, instances, callEvents, leftRecorded, completedCollects, usingTurnEvents>>
    /\ UNCHANGED <<adVars, cdVars, stVars, lpVars, evVars, snVars, msVars>>

\* createAudioDesyncDetector(config), lines 441-487: an existing detector is returned;
\* otherwise one is constructed with the given thresholds and registered.  Nothing throws.
ClientMonitor_createAudioDesyncDetector ==
    /\ \E config \in {None} \cup { Some(c) : c \in CreateConfigs } :
          LET created == CreateAudioDesyncDetector(
                            [detectors |-> detectors, listeners |-> listeners], config, FALSE)
          IN  /\ detectors' = created.detectors
              /\ listeners' = created.listeners
              /\ instances' = IF "AudioDesyncDetector" \in DOMAIN detectors THEN instances
                              ELSE [instances EXCEPT !["AudioDesyncDetector"] = @ + 1]
              /\ cmLast' = [op |-> "createAudioDesyncDetector", pending |-> Len(inflight),
                            emitted |-> <<>>, given |-> config, threw |-> FALSE,
                            existed |-> "AudioDesyncDetector" \in DOMAIN detectors]
    /\ UNCHANGED <<cmConfig, cmClosed, cmTimer, actualCollectingTick, inflight, usingTURN,
                   joined, left, callEvents, leftRecorded, completedCollects, usingTurnEvents>>
    /\ UNCHANGED <<adVars, cdVars, stVars, lpVars, evVars, snVars, msVars>>

\* Largest number of detectors of one kind the model lets be alive at once.
MaxInstances == 2

\* createVideoFreezesDetector, lines 489-537, on the registry and the listeners: the
\* detector is registered under VideoFreezesDetector.name; onUpdate is defined (line 498)
\* and never subscribed to 'stats-collected'
CreateVideoFreezesDetector(m) ==
    IF "VideoFreezesDetector" \in DOMAIN m.detectors THEN m
    ELSE [m EXCEPT !.detectors = RegisterDetector(@, "VideoFreezesDetector", [config |-> {}])]

\* createCpuPerformanceIssueDetector, lines 539-576, called without createIssueOnDetection
CreateCpuPerformanceIssueDetector(m) ==
    IF "CpuPerformanceDetector" \in DOMAIN m.detectors THEN m
    ELSE [detectors |-> RegisterDetector(m.detectors, "CpuPerformanceDetector", [config |-> {}]),
          listeners |-> AddListener(m.listeners, "CpuPerformanceDetector", FALSE)]

\* createStuckedInboundTrackDetector, lines 578-620, called without config: the existing
\* detector is looked up under StuckedInboundTrackDetector.name (line 581) and the new one
\* is registered under 'StuckedInboundTrack' (line 617)
CreateStuckedInboundTrackDetector(m) ==
    IF "StuckedInboundTrackDetector" \in DOMAIN m.detectors THEN m
    ELSE [detectors |-> RegisterDetector(m.detectors, "StuckedInboundTrack",
                                         [minStuckedDurationInMs |-> 5000]),
          listeners |-> AddListener(m.listeners, "StuckedInboundTrackDetector", FALSE)]

\* createLongPcConnectionEstablishmentDetector, lines 622-655, called without config: the
\* existing detector is looked up in _detectors, the new one is not put there, and no
\* listener on 'stats-collected' is made
CreateLongPcConnectionEstablishmentDetector(m) ==
    IF "LongPcConnectionEstablishmentDetector" \in DOMAIN m.detectors THEN m
    ELSE m

\* What a create...Detector call leaves behind: registry and listeners as the method
\* made them, one more detector alive unless the existing one was returned
Created(op, kind, lookupKey, made) ==
    /\ instances[kind] < MaxInstances
    /\ detectors' = made.detectors
    /\ listeners' = made.listeners
    /\ instances' = IF lookupKey \in DOMAIN detectors THEN instances
                    ELSE [instances EXCEPT ![kind] = @ + 1]
    /\ cmLast' = [op |-> op, pending |-> Len(inflight), emitted |-> <<>>,
                  existed |-> lookupKey \in DOMAIN detectors]
    /\ UNCHANGED <<cmConfig, cmClosed, cmTimer, actualCollectingTick, inflight, usingTURN,
                   joined, left, callEvents, leftRecorded, completedCollects, usingTurnEvents>>
    /\ UNCHANGED <<adVars, cdVars, stVars, lpVars, evVars, snVars, msVars>>

Held == [detectors |-> detectors, listeners |-> listeners]

\* createCongestionDetector(options), lines 371-439, called without createIssueOnDetection
ClientMonitor_createCongestionDetector ==
    Created("createCongestionDetector", "CongestionDetector", "CongestionDetector",
            CreateCongestionDetector(Held, FALSE))

\* createVideoFreezesDetector(), lines 489-537
ClientMonitor_createVideoFreezesDetector ==
    Created("createVideoFreezesDetector", "VideoFreezesDetector", "VideoFreezesDetector",
            CreateVideoFreezesDetector(Held))

\* createCpuPerformanceIssueDetector(), lines 539-576
ClientMonitor_createCpuPerformanceIssueDetector ==
    Created("createCpuPerformanceIssueDetector", "CpuPerformanceDetector",
            "CpuPerformanceDetector", CreateCpuPerformanceIssueDetector(Held))

\* createStuckedInboundTrackDetector(), lines 578-620
ClientMonitor_createStuckedInboundTrackDetector ==
    Created("createStuckedInboundTrackDetector", "StuckedInboundTrackDetector",
            "StuckedInboundTrackDetector", CreateStuckedInboundTrackDetector(Held))

\* createLongPcConnectionEstablishmentDetector(), lines 622-655
ClientMonitor_createLongPcConnectionEstablishmentDetector ==
    Created("createLongPcConnectionEstablishmentDetector",
            "LongPcConnectionEstablishmentDetector", "LongPcConnectionEstablishmentDetector",
            CreateLongPcConnectionEstablishmentDetector(Held))

\* the key a detector's 'close' listener deletes from _detectors (lines 430, 478, 530,
\* 569, 612; none for the long connection establishment detector, lines 650-652)
DeletedKey(kind) ==
    IF kind = "StuckedInboundTrackDetector" THEN "StuckedInboundTrack" ELSE kind

\* the first listener of the kind is taken off 'stats-collected'
RECURSIVE WithoutFirst(_, _)
WithoutFirst(names, name) ==
    IF names = <<>> THEN <<>>
    ELSE IF Head(names) = name THEN Tail(names)
    ELSE <<Head(names)>> \o WithoutFirst(Tail(names), name)

\* the application closes a detector the monitor created: close() emits 'close' (part_003
\* lines 122-127) and the listener made by the create method takes the detector's onUpdate
\* off 'stats-collected', its own listeners off the detector, and deletes the registry key
Detector_close ==
    /\ \E kind \in DetectorKinds :
          /\ instances[kind] > 0
          /\ instances' = [instances EXCEPT ![kind] = @ - 1]
          /\ listeners' = [listeners EXCEPT
                              !.statsCollected = WithoutFirst(@, kind),
                              !.creatingIssues = IF instances[kind] = 1 THEN @ \ {kind} ELSE @]
          /\ detectors' = [key \in DOMAIN detectors \ {DeletedKey(kind)} |-> detectors[key]]
          /\ cmLast' = [op |-> "detector.close", pending |-> Len(inflight), emitted |-> <<>>,
                        kind |-> kind]
    /\ UNCHANGED <<cmConfig, cmClosed, cmTimer, actualCollectingTick, inflight, usingTURN,
                   joined, left, callEvents, leftRecorded, completedCollects, usingTurnEvents>>
    /\ UNCHANGED <<adVars, cdVars, stVars, lpVars, evVars, snVars, msVars>>

\* A monitor the application creates detectors on, closes them, and collects with
NextDetectors ==
    \/ ClientMonitor_createCongestionDetector
    \/ ClientMonitor_createVideoFreezesDetector
    \/ ClientMonitor_createCpuPerformanceIssueDetector
    \/ ClientMonitor_createStuckedInboundTrackDetector
    \/ ClientMonitor_createLongPcConnectionEstablishmentDetector
    \/ Detector_close
    \/ ClientMonitor_collect
    \/ UncountedCollectResolves

\* A monitor whose collect() calls overlap while the use of TURN changes
NextTurn ==
    \/ ClientMonitor_collect
    \/ TurnRecordedCollectResolves
    \/ CollectRejects
    \/ ClientMonitor_setSamplingTick

NextMonitor ==
    \/ ClientMonitor_createAudioDesyncDetector
    \/ TimerFires
    \/ ClientMonitor_collect
    \/ UncountedCollectResolves
    \/ CollectRejects
    \/ ClientMonitor_close
    \/ ClientMonitor_leave
    \/ ClientMonitor_setCollectingPeriod
    \/ ClientMonitor_setSamplingTick

\* A monitor whose configuration stays as constructed and which the application drives:
\* collect(), join(), sample(), close()
NextCycle ==
    \/ ClientMonitor_collect
    \/ CountedCollectResolves
    \/ CollectRejects
    \/ ClientMonitor_join
    \/ ClientMonitor_sample
    \/ ClientMonitor_close

(***************************************************************************)
(* LongPcConnectionEstablishmentDetector                                   *)
(***************************************************************************)

\* Largest value of Date.now() the model lets this detector's clock reach.
MaxLpNow == 5

\* config.longPcConnectionEstablishmentDetector; thresholdInMs in clock ticks
LpConfigs == { [disabled |-> d, thresholdInMs |-> 2] : d \in BOOLEAN }

ConnectionStates == {"new", "connecting", "connected", "disconnected", "failed", "closed"}

InitLongPc(configs) ==
    /\ lpConfig \in configs
    /\ connectionState = "new"
    /\ connectingStartedAt = None
    /\ evented = FALSE
    /\ lpNow = 1
    /\ lpLast = [op |-> "init", observed |-> "new", emitted |-> {}, duration |-> None]
    /\ lpEpisode = [fired |-> 0, reached |-> FALSE, armedAtStart |-> TRUE, rearmedAtStart |-> TRUE]
    /\ lpHistory = [rearmed |-> TRUE, firedOutside |-> FALSE]

\* The peer connection changes its connectionState.  Entering 'connecting' starts an
\* episode and records its start; on leaving it connectingStartedAt is cleared or kept.
ConnectionStateChange ==
    /\ \E state \in ConnectionStates \ {connectionState} :
          /\ connectionState' = state
          /\ IF state = "connecting"
             THEN /\ connectingStartedAt' = Some(lpNow)
                  /\ lpEpisode' = [fired |-> 0, reached |-> FALSE, armedAtStart |-> ~evented,
                                   rearmedAtStart |-> lpHistory.rearmed]
             ELSE /\ connectingStartedAt' \in {connectingStartedAt, None}
                  /\ UNCHANGED lpEpisode
          /\ lpLast' = [op |-> "state", observed |-> state, emitted |-> {}, duration |-> None]
    /\ UNCHANGED <<lpConfig, evented, lpNow, lpHistory>>
    /\ UNCHANGED <<adVars, cdVars, stVars, cmVars, evVars, snVars, msVars>>

\* Time passes.
LpTick ==
    /\ lpNow < MaxLpNow
    /\ lpNow' = lpNow + 1
    /\ lpLast' = [op |-> "tick", observed |-> connectionState, emitted |-> {}, duration |-> None]
    /\ UNCHANGED <<lpConfig, connectionState, connectingStartedAt, evented, lpEpisode, lpHistory>>
    /\ UNCHANGED <<adVars, cdVars, stVars, cmVars, evVars, snVars, msVars>>

\* lines 141-145: _evented after the reset
EventedAfterReset(state, wasEvented) ==
    IF state # "connecting" /\ wasEvented /\ state = "connected" THEN FALSE ELSE wasEvented

\* mutant: the threshold has to be exceeded
DurationReachedMutExceeded(duration, threshold) == duration > threshold

\* lines 149-152: `duration < thresholdInMs` returns
DurationReached(duration, threshold) == ~(duration < threshold)

\* lines 146-153: TRUE when update goes on to emit
UpdateFires(state, wasEvented, startedAt, now, cfg) ==
    /\ ~EventedAfterReset(state, wasEvented)
    /\ IsSome(startedAt)
    /\ DurationReached(now - startedAt[1], cfg.thresholdInMs)

\* LongPcConnectionEstablishmentDetector.update()
LongPcConnectionEstablishmentDetector_update ==
    /\ IF lpConfig.disabled
       THEN \* line 140
            /\ lpLast' = [op |-> "update", observed |-> connectionState, emitted |-> {},
                          duration |-> None]
            /\ UNCHANGED <<evented, lpEpisode, lpHistory>>
       ELSE LET fires == UpdateFires(connectionState, evented, connectingStartedAt, lpNow, lpConfig)
                reached == /\ connectionState = "connecting"
                           /\ IsSome(connectingStartedAt)
                           /\ lpNow - connectingStartedAt[1] >= lpConfig.thresholdInMs
            IN  /\ evented' = IF fires THEN TRUE
                              ELSE EventedAfterReset(connectionState, evented)
                /\ lpLast' = [op |-> "update", observed |-> connectionState,
                              emitted |-> IF fires
                                          THEN {"too-long-pc-connection-establishment", "issue"}
                                          ELSE {},
                              duration |-> IF fires THEN Some(lpNow - connectingStartedAt[1])
                                           ELSE None]
                /\ lpEpisode' = IF connectionState = "connecting"
                                THEN [lpEpisode EXCEPT
                                        !.fired = IF fires THEN @ + 1 ELSE @,
                                        !.reached = @ \/ reached]
                                ELSE lpEpisode
                /\ lpHistory' =
                      [rearmed |-> IF fires THEN FALSE
                                   ELSE IF connectionState # "connecting" THEN TRUE
                                   ELSE lpHistory.rearmed,
                       firedOutside |-> lpHistory.firedOutside
                                        \/ (fires /\ connectionState # "connecting")]
    /\ UNCHANGED <<lpConfig, connectionState, connectingStartedAt, lpNow>>
    /\ UNCHANGED <<adVars, cdVars, stVars, cmVars, evVars, snVars, msVars>>

NextLongPc ==
    \/ ConnectionStateChange
    \/ LpTick
    \/ LongPcConnectionEstablishmentDetector_update

(***************************************************************************)
(* ClientMonitorImpl: collect() and the evaluation of the alerts           *)
(***************************************************************************)

\* Largest number of collect() calls of ClientMonitorImpl in progress at once.
MaxEvaluating == 2

\* Object.entries(this.alerts), lines 104-120: the keys in the order of the literal
AlertKeys ==
    <<"audio-desync-alert", "cpu-performance-alert", "mean-opinion-score-alert",
      "stability-score-alert">>

AlertKeySet == { AlertKeys[k] : k \in DOMAIN AlertKeys }

\* lines 104-120: every alert starts 'off'
InitEvaluate ==
    /\ alerts = [key \in AlertKeySet |-> "off"]
    /\ evaluating = <<>>
    /\ evLast = [op |-> "init", differs |-> FALSE, emitted |-> <<>>]

\* lines 478-483: the states of the four alerts before the evaluators run
AlertStatesBefore(held) ==
    [key \in {"audio-desync-alert", "cpu-performance-alert", "mean-opinion-score-alert",
              "stability-score-alert"} |-> held[key]]

\* mutant: alertChanged tells whether the last alert looked at has changed
EvaluateLoopMutLastWins(held, k, acc) ==
    LET last == AlertKeys[Len(AlertKeys)]
    IN  [alertChanged |-> acc.alertStates[last] # held[last],
         alertStates |-> [key \in DOMAIN acc.alertStates |-> held[key]]]

\* lines 490-498: the loop over Object.entries(this.alerts), from the k-th entry on.
\* acc = [alertChanged, alertStates]
RECURSIVE EvaluateLoop(_, _, _)
EvaluateLoop(held, k, acc) ==
    IF k > Len(AlertKeys) THEN acc
    ELSE LET key == AlertKeys[k]
             prevState == acc.alertStates[key]
         IN  EvaluateLoop(held, k + 1,
                 [alertChanged |-> acc.alertChanged \/ (prevState # held[key]),
                  alertStates |-> [acc.alertStates EXCEPT ![key] = held[key]]])

EvFrame == UNCHANGED <<adVars, cdVars, stVars, cmVars, lpVars, snVars, msVars>>

\* collect(), lines 285-293: up to `await this._collectors.collect()`
ClientMonitorImpl_collect ==
    /\ Len(evaluating) < MaxEvaluating
    /\ evaluating' = Append(evaluating, [phase |-> "collecting", alertStates |-> None])
    /\ evLast' = [op |-> "collect", differs |-> FALSE, emitted |-> <<>>]
    /\ UNCHANGED alerts
    /\ EvFrame

\* collect(), lines 293-306, and _evaluate, lines 477-488: the collectors have settled (a
\* rejection is caught and logged), the storage is committed, 'stats-collected' is
\* emitted, and _evaluate keeps the alert states and awaits the evaluators
CollectorsSettle ==
    /\ \E i \in DOMAIN evaluating :
          /\ evaluating[i].phase = "collecting"
          /\ evaluating' = [evaluating EXCEPT ![i] =
                               [phase |-> "evaluating",
                                alertStates |-> Some(AlertStatesBefore(alerts))]]
    /\ evLast' = [op |-> "collected", differs |-> FALSE, emitted |-> <<"stats-collected">>]
    /\ UNCHANGED alerts
    /\ EvFrame

\* an evaluator added in _makeEvaluators (lines 504-527) sets the state of the alert it
\* was given while the evaluators run
EvaluatorSetsAlert ==
    /\ \E i \in DOMAIN evaluating : evaluating[i].phase = "evaluating"
    /\ \E key \in AlertKeySet, state \in {"on", "off"} :
          /\ alerts[key] # state
          /\ alerts' = [alerts EXCEPT ![key] = state]
    /\ evLast' = [op |-> "evaluator", differs |-> FALSE, emitted |-> <<>>]
    /\ UNCHANGED evaluating
    /\ EvFrame

\* _evaluate, lines 490-501: the evaluators have run; the alert states are compared with
\* those kept and 'alerts-changed' is emitted if one differs.  evLast.differs tells
\* whether the states kept differ from those the alerts have now.
EvaluatorsResolve ==
    /\ \E i \in DOMAIN evaluating :
          /\ evaluating[i].phase = "evaluating"
          /\ LET before == evaluating[i].alertStates[1]
                 r == EvaluateLoop(alerts, 1, [alertChanged |-> FALSE, alertStates |-> before])
             IN  evLast' = [op |-> "evaluated",
                            differs |-> \E key \in AlertKeySet : before[key] # alerts[key],
                            emitted |-> IF r.alertChanged
                                        THEN <<[event |-> "alerts-changed",
                                                payload |-> r.alertStates]>>
                                        ELSE <<>>]
          /\ evaluating' = RemoveAt(evaluating, i)
    /\ UNCHANGED alerts
    /\ EvFrame

NextEvaluate ==
    \/ ClientMonitorImpl_collect
    \/ CollectorsSettle
    \/ EvaluatorSetsAlert
    \/ EvaluatorsResolve

(***************************************************************************)
(* ClientMonitorImpl: the accumulator, the Sender and close()              *)
(***************************************************************************)

\* Largest number of Samples the accumulator is given over a run.
MaxSamples == 3

CloseControl == Some([close |-> TRUE])

\* new Samples({controls: new Samples_Controls({close: true})}), lines 312-316
ClosingSamples == [id |-> 0, controls |-> CloseControl]

\* constructor, lines 74-86: the accumulator is empty; _createSender (lines 444-463)
\* creates the Sender if config.sender is given
InitSenderWith(senders) ==
    /\ implClosed = FALSE
    /\ implSender \in senders
    /\ samplerClosed = FALSE
    /\ accumulator = <<>>
    /\ samplesMade = 0
    /\ snLast = [op |-> "init", hadSender |-> FALSE, wasClosed |-> FALSE,
                 drained |-> <<>>, sent |-> <<>>, threw |-> FALSE]

InitSender == InitSenderWith({"none", "open"})

\* A monitor constructed without config.sender, on which nothing is called.
InitSenderIdle == InitSenderWith({"none"})

\* Accumulator.drainTo(consumer) with the consumers of lines 280-283 and 308-311: the
\* buffered Samples are pushed to the queue in order and the buffer is emptied
DrainTo(buffered) == [queue |-> buffered, buffered |-> <<>>]

\* lines 312-320: an empty queue gets a Samples holding the close control only, else the
\* last Samples of the queue gets the close control
ClosingQueue(queue) ==
    IF Len(queue) < 1 THEN <<ClosingSamples>>
    ELSE [queue EXCEPT ![Len(queue)].controls = CloseControl]

\* what each this._sender.send(samples) of a queue does: it returns or it throws
SendOutcomes(queue) == [DOMAIN queue -> {"sent", "throws"}]

\* lines 322-324: the loop of close() over the queue; a send that throws leaves the loop
\* and close()
SentUnguarded(queue, outcomes) ==
    LET thrown == { k \in DOMAIN queue : outcomes[k] = "throws" }
        first == IF thrown = {} THEN Len(queue) + 1
                 ELSE CHOOSE k \in thrown : \A j \in thrown : k <= j
    IN  [sent |-> SubSeq(queue, 1, first - 1), threw |-> thrown # {}]

\* lines 284-290: the loop of send() over the queue; an error thrown by a send is
\* caught and logged
SentGuarded(queue, outcomes) ==
    LET at == { k \in DOMAIN queue : outcomes[k] = "sent" }
        RECURSIVE Pick(_)
        Pick(k) == IF k > Len(queue) THEN <<>>
                   ELSE (IF k \in at THEN <<queue[k]>> ELSE <<>>) \o Pick(k + 1)
    IN  [sent |-> Pick(1), threw |-> FALSE]

SnFrame == UNCHANGED <<adVars, cdVars, stVars, cmVars, lpVars, evVars, msVars>>

\* sample(), lines 255-268: the sampler makes a client sample and the accumulator takes
\* it, here into a new Samples; an error of the closed sampler is caught
ClientMonitorImpl_sample ==
    /\ samplesMade < MaxSamples
    /\ IF samplerClosed
       THEN UNCHANGED <<accumulator, samplesMade>>
       ELSE /\ samplesMade' = samplesMade + 1
            /\ accumulator' = Append(accumulator, [id |-> samplesMade + 1, controls |-> None])
    /\ snLast' = [op |-> "sample", hadSender |-> implSender = "open", wasClosed |-> implClosed,
                  drained |-> <<>>, sent |-> <<>>, threw |-> FALSE]
    /\ UNCHANGED <<implClosed, implSender, samplerClosed>>
    /\ SnFrame

\* connect(senderConfig), lines 161-168
ClientMonitorImpl_connect ==
    /\ implSender' = "open"
    /\ snLast' = [op |-> "connect", hadSender |-> implSender = "open", wasClosed |-> implClosed,
                  drained |-> <<>>, sent |-> <<>>, threw |-> FALSE]
    /\ UNCHANGED <<implClosed, samplerClosed, accumulator, samplesMade>>
    /\ SnFrame

\* disconnect(), lines 170-178
ClientMonitorImpl_disconnect ==
    /\ implSender' = "none"
    /\ snLast' = [op |-> "disconnect", hadSender |-> implSender = "open",
                  wasClosed |-> implClosed, drained |-> <<>>, sent |-> <<>>, threw |-> FALSE]
    /\ UNCHANGED <<implClosed, samplerClosed, accumulator, samplesMade>>
    /\ SnFrame

\* send(callback), lines 270-295
ClientMonitorImpl_send ==
    /\ IF implSender = "none"
       THEN /\ snLast' = [op |-> "send", hadSender |-> FALSE, wasClosed |-> implClosed,
                          drained |-> <<>>, sent |-> <<>>, threw |-> FALSE]
            /\ UNCHANGED accumulator
       ELSE \E outcomes \in SendOutcomes(DrainTo(accumulator).queue) :
               LET queue == DrainTo(accumulator).queue
                   r == SentGuarded(queue, outcomes)
               IN  /\ accumulator' = DrainTo(accumulator).buffered
                   /\ snLast' = [op |-> "send", hadSender |-> TRUE, wasClosed |-> implClosed,
                                 drained |-> queue, sent |-> r.sent, threw |-> r.threw]
    /\ UNCHANGED <<implClosed, implSender, samplerClosed, samplesMade>>
    /\ SnFrame

\* close(), lines 297-334.  A closed monitor returns at once.  Else, with a Sender, the
\* accumulator is drained, the close control is put on the queue and the queue is sent;
\* then collectors, sampler and Sender are closed (the Sender's onClosed listener, lines
\* 453-455, drops it) and the storage is cleared.  A send that throws leaves the try
\* block: _closed is set by `finally` and nothing after the loop is done.
ClientMonitorImpl_close ==
    /\ IF implClosed
       THEN /\ snLast' = [op |-> "close", hadSender |-> implSender = "open", wasClosed |-> TRUE,
                          drained |-> <<>>, sent |-> <<>>, threw |-> FALSE]
            /\ UNCHANGED <<implClosed, implSender, samplerClosed, accumulator>>
       ELSE IF implSender = "none"
       THEN /\ snLast' = [op |-> "close", hadSender |-> FALSE, wasClosed |-> FALSE,
                          drained |-> <<>>, sent |-> <<>>, threw |-> FALSE]
            /\ implClosed' = TRUE
            /\ samplerClosed' = TRUE
            /\ UNCHANGED <<implSender, accumulator>>
       ELSE \E outcomes \in SendOutcomes(ClosingQueue(DrainTo(accumulator).queue)) :
               LET queue == ClosingQueue(DrainTo(accumulator).queue)
                   r == SentUnguarded(queue, outcomes)
               IN  /\ accumulator' = DrainTo(accumulator).buffered
                   /\ snLast' = [op |-> "close", hadSender |-> TRUE, wasClosed |-> FALSE,
                                 drained |-> DrainTo(accumulator).queue,
                                 sent |-> r.sent, threw |-> r.threw]
                   /\ implClosed' = TRUE
                   /\ samplerClosed' = (samplerClosed \/ ~r.threw)
                   /\ implSender' = IF r.threw THEN implSender ELSE "none"
    /\ UNCHANGED samplesMade
    /\ SnFrame

NextSender ==
    \/ ClientMonitorImpl_sample
    \/ ClientMonitorImpl_connect
    \/ ClientMonitorImpl_disconnect
    \/ ClientMonitorImpl_send
    \/ ClientMonitorImpl_close

(***************************************************************************)
(* The mediasoup stats collector (createMediasoupStatsCollector)           *)
(***************************************************************************)

\* The transports the device creates, in the order it creates them, and what they carry:
\* a producer, a consumer and a data producer.
MediasoupTransportIds == <<"t1", "t2">>
MediasoupTransportIdSet == { MediasoupTransportIds[k] : k \in DOMAIN MediasoupTransportIds }
Directions == {"send", "recv"}
EntityKinds == [p1 |-> "producer", c1 |-> "consumer", d1 |-> "dataProducer"]
EntityIds == DOMAIN EntityKinds
TrackIds == {"track-p1", "track-2"}

\* A transport, producer, consumer or data producer of mediasoup: not created, open or
\* closed; `added` tells whether the collector's listener was called with it, so that
\* the collector's listeners are on its observer until it closes.
NotCreated == [state |-> "none", added |-> FALSE, direction |-> "send", on |-> ""]

\* lines 580-583, 876, 887-888: the maps are empty, the collector is open and listens to
\* the device's 'newtransport'
InitMediasoup ==
    /\ msClosed = FALSE
    /\ msTransports = <<>>
    /\ msProducers = {}
    /\ msConsumers = {}
    /\ addedOutboundTrackIds = {}
    /\ mediasoupTransports = [t \in MediasoupTransportIdSet |-> NotCreated]
    /\ mediasoupEntities = [e \in EntityIds |-> NotCreated]
    /\ producerPhase = "new"
    /\ msLast = [op |-> "init", closedBefore |-> FALSE, emitted |-> <<>>, result |-> None,
                 annotated |-> {}]

\* whether the listeners the collector put on the object's observer are still there
Listening(object) == object.added /\ object.state = "open"

\* lines 585-588: the last of the 'send' transports in the transports map.  `held` is the
\* sequence of the ids in the map, in the order of insertion.
GetLastSndTransport(held, all) ==
    LET sndTransports == SelectSeq(held, LAMBDA id : all[id].direction = "send")
    IN  IF Len(sndTransports) < 1 THEN None ELSE Some(sndTransports[Len(sndTransports)])

\* lines 590-612: addTrack(event)
AddTrack(added, trackId) == added \cup {trackId}

\* the history of the producer's call events: ADDED first, then PAUSED and RESUMED,
\* then REMOVED and nothing after it; any other order is "bad"
ObservedOne(phase, name) ==
    IF phase = "new" /\ name = "PRODUCER_ADDED" THEN "added"
    ELSE IF phase = "added" /\ name \in {"PRODUCER_PAUSED", "PRODUCER_RESUMED"} THEN "added"
    ELSE IF phase = "added" /\ name = "PRODUCER_REMOVED" THEN "removed"
    ELSE IF name \in {"PRODUCER_ADDED", "PRODUCER_PAUSED", "PRODUCER_RESUMED",
                      "PRODUCER_REMOVED"} THEN "bad"
    ELSE phase

RECURSIVE Observed(_, _)
Observed(phase, emitted) ==
    IF emitted = <<>> THEN phase
    ELSE Observed(ObservedOne(phase, Head(emitted).name), Tail(emitted))

\* emitCallEvent(event) called for each of `emitted` by the operation `op`
MsDone(op, emitted, result, annotated) ==
    /\ msLast' = [op |-> op, closedBefore |-> msClosed, emitted |-> emitted,
                  result |-> result, annotated |-> annotated]
    /\ producerPhase' = Observed(producerPhase, emitted)
    /\ UNCHANGED <<adVars, cdVars, stVars, cmVars, lpVars, evVars, snVars>>

CallEvent(name, peerConnectionId) == [name |-> name, peerConnectionId |-> peerConnectionId]

\* the first transport not created yet
NextTransport ==
    LET free == { k \in DOMAIN MediasoupTransportIds : mediasoupTransports[MediasoupTransportIds[k]].state = "none" }
    IN  IF free = {} THEN None ELSE Some(MediasoupTransportIds[CHOOSE k \in free : \A j \in free : k <= j])

\* the device creates a transport and its observer emits 'newtransport'; a collector
\* that is not closed has addTransport on that event (lines 884, 887).
\* addTransport(transport), lines 772-824: the listeners are put on the transport and its
\* observer and PEER_CONNECTION_OPENED is emitted; the transport is not put into the
\* transports map.
Device_newtransport ==
    /\ IsSome(NextTransport)
    /\ \E direction \in Directions :
          LET t == NextTransport[1]
          IN  /\ mediasoupTransports' = [mediasoupTransports EXCEPT ![t] =
                    [state |-> "open", added |-> ~msClosed, direction |-> direction, on |-> ""]]
              /\ MsDone("newtransport",
                        IF ~msClosed THEN <<CallEvent("PEER_CONNECTION_OPENED", t)>> ELSE <<>>,
                        None, {})
    /\ UNCHANGED <<msClosed, msTransports, msProducers, msConsumers, addedOutboundTrackIds,
                   mediasoupEntities>>

\* the transport emits 'connectionstatechange': lines 784-791
Transport_connectionstatechange ==
    /\ \E t \in MediasoupTransportIdSet :
          /\ mediasoupTransports[t].state = "open"
          /\ MsDone("connectionstatechange",
                    IF Listening(mediasoupTransports[t])
                    THEN <<CallEvent("PEER_CONNECTION_STATE_CHANGED", t)>> ELSE <<>>,
                    None, {})
    /\ UNCHANGED <<msClosed, msTransports, msProducers, msConsumers, addedOutboundTrackIds,
                   mediasoupTransports, mediasoupEntities>>

\* the transport's observer emits 'close': lines 801-811
Transport_close ==
    /\ \E t \in MediasoupTransportIdSet :
          /\ mediasoupTransports[t].state = "open"
          /\ mediasoupTransports' = [mediasoupTransports EXCEPT ![t].state = "closed"]
          /\ msTransports' = IF Listening(mediasoupTransports[t])
                             THEN SelectSeq(msTransports, LAMBDA id : id # t)
                             ELSE msTransports
          /\ MsDone("transport.close",
                    IF Listening(mediasoupTransports[t])
                    THEN <<CallEvent("PEER_CONNECTION_CLOSED", t)>> ELSE <<>>,
                    None, {})
    /\ UNCHANGED <<msClosed, msProducers, msConsumers, addedOutboundTrackIds,
                   mediasoupEntities>>

\* the entity `e` is created on the open transport `t`
CreatedOn(e, t) ==
    /\ mediasoupTransports[t].state = "open"
    /\ mediasoupEntities[e].state = "none"
    /\ mediasoupEntities' = [mediasoupEntities EXCEPT ![e] =
          [state |-> "open", added |-> Listening(mediasoupTransports[t]),
           direction |-> mediasoupTransports[t].direction, on |-> t]]

\* the transport's observer emits 'newproducer': the listener of
\* createAddProducerListener(transport.id), lines 626-675
Transport_newproducer ==
    /\ \E t \in MediasoupTransportIdSet :
          /\ CreatedOn("p1", t)
          /\ IF Listening(mediasoupTransports[t])
             THEN /\ msProducers' = msProducers \cup {"p1"}
                  /\ addedOutboundTrackIds' = AddTrack(addedOutboundTrackIds, "track-p1")
                  /\ MsDone("newproducer", <<CallEvent("PRODUCER_ADDED", t)>>, None, {})
             ELSE /\ UNCHANGED <<msProducers, addedOutboundTrackIds>>
                  /\ MsDone("newproducer", <<>>, None, {})
    /\ UNCHANGED <<msClosed, msTransports, msConsumers, mediasoupTransports>>

\* the transport's observer emits 'newconsumer': the listener of
\* createAddConsumerListener(transport.id), lines 677-722
Transport_newconsumer ==
    /\ \E t \in MediasoupTransportIdSet :
          /\ CreatedOn("c1", t)
          /\ IF Listening(mediasoupTransports[t])
             THEN /\ msConsumers' = msConsumers \cup {"c1"}
                  /\ addedOutboundTrackIds' = AddTrack(addedOutboundTrackIds, "track-c1")
                  /\ MsDone("newconsumer", <<CallEvent("CONSUMER_ADDED", t)>>, None, {})
             ELSE /\ UNCHANGED <<msConsumers, addedOutboundTrackIds>>
                  /\ MsDone("newconsumer", <<>>, None, {})
    /\ UNCHANGED <<msClosed, msTransports, msProducers, mediasoupTransports>>

\* the transport's observer emits 'newdataproducer': the listener of
\* createAddDataProducerListener(transport.id), lines 724-744
Transport_newdataproducer ==
    /\ \E t \in MediasoupTransportIdSet :
          /\ CreatedOn("d1", t)
          /\ MsDone("newdataproducer",
                    IF Listening(mediasoupTransports[t])
                    THEN <<CallEvent("DATA_PRODUCER_OPENED", t)>> ELSE <<>>,
                    None, {})
    /\ UNCHANGED <<msClosed, msTransports, msProducers, msConsumers, addedOutboundTrackIds,
                   mediasoupTransports>>

\* the names of the call events of each kind
PausedEvent == [producer |-> "PRODUCER_PAUSED", consumer |-> "CONSUMER_PAUSED"]
ResumedEvent == [producer |-> "PRODUCER_RESUMED", consumer |-> "CONSUMER_RESUMED"]
ClosedEvent == [producer |-> "PRODUCER_REMOVED", consumer |-> "CONSUMER_REMOVED",
                dataProducer |-> "DATA_PRODUCER_CLOSED"]

\* the observer of a producer or a consumer emits 'pause' or 'resume': pauseListener and
\* resumeListener, lines 636-647 and 687-698
Observer_pauseOrResume ==
    /\ \E e \in {"p1", "c1"}, names \in {PausedEvent, ResumedEvent} :
          /\ mediasoupEntities[e].state = "open"
          /\ MsDone("pause/resume",
                    IF Listening(mediasoupEntities[e])
                    THEN <<CallEvent(names[EntityKinds[e]], mediasoupEntities[e].on)>> ELSE <<>>,
                    None, {})
    /\ UNCHANGED <<msClosed, msTransports, msProducers, msConsumers, addedOutboundTrackIds,
                   mediasoupTransports, mediasoupEntities>>

\* the observer of a producer, a consumer or a data producer emits 'close': the once
\* listeners of lines 648-656, 699-707 and 738
Observer_close ==
    /\ \E e \in EntityIds :
          /\ mediasoupEntities[e].state = "open"
          /\ mediasoupEntities' = [mediasoupEntities EXCEPT ![e].state = "closed"]
          /\ msProducers' = IF Listening(mediasoupEntities[e]) THEN msProducers \ {e}
                            ELSE msProducers
          /\ msConsumers' = IF Listening(mediasoupEntities[e]) THEN msConsumers \ {e}
                            ELSE msConsumers
          /\ MsDone("observer.close",
                    IF Listening(mediasoupEntities[e])
                    THEN <<CallEvent(ClosedEvent[EntityKinds[e]], mediasoupEntities[e].on)>>
                    ELSE <<>>,
                    None, {})
    /\ UNCHANGED <<msClosed, msTransports, addedOutboundTrackIds, mediasoupTransports>>

\* close(), lines 876-886: the maps are cleared, addTransport is taken off the device's
\* observer and the middleware off the storage
MediasoupStatsCollector_close ==
    /\ IF msClosed
       THEN UNCHANGED <<msClosed, msTransports, msProducers, msConsumers>>
       ELSE /\ msClosed' = TRUE
            /\ msTransports' = <<>>
            /\ msProducers' = {}
            /\ msConsumers' = {}
    /\ MsDone("close", <<>>, None, {})
    /\ UNCHANGED <<addedOutboundTrackIds, mediasoupTransports, mediasoupEntities>>

\* addOutboundTrack(track), lines 614-624; result is the peerConnectionId handed to
\* addTrack, if it is called
MediasoupStatsCollector_addOutboundTrack ==
    /\ \E trackId \in TrackIds :
          LET sndTransport == GetLastSndTransport(msTransports, mediasoupTransports)
          IN  /\ addedOutboundTrackIds' = IF IsSome(sndTransport)
                                          THEN AddTrack(addedOutboundTrackIds, trackId)
                                          ELSE addedOutboundTrackIds
              /\ MsDone("addOutboundTrack", <<>>, sndTransport, {})
    /\ UNCHANGED <<msClosed, msTransports, msProducers, msConsumers, mediasoupTransports,
                   mediasoupEntities>>

\* storage.getPeerConnection(id): the storage holds the stats of the open transports the
\* collector was given, under their ids
GetPeerConnection(id) ==
    IF id \in MediasoupTransportIdSet /\ Listening(mediasoupTransports[id]) THEN Some(id) ELSE None

\* adaptStorageMiddleware(storage, next), lines 826-874, run by the storage of a collector
\* that is not closed: result is the transport it looked up, annotated the streams of
\* the producers and consumers it has marked with their ids
AdaptStorageMiddleware ==
    /\ ~msClosed
    /\ LET sndTransport == GetLastSndTransport(msTransports, mediasoupTransports)
           peerConnectionStats == GetPeerConnection(OrElse(sndTransport, ""))
       IN  /\ addedOutboundTrackIds' =
                 IF IsSome(peerConnectionStats) /\ "p1" \in msProducers
                 THEN AddTrack(addedOutboundTrackIds, "track-p1")
                 ELSE addedOutboundTrackIds
           /\ MsDone("middleware", <<>>, sndTransport,
                     IF IsSome(peerConnectionStats)
                     THEN { [stream |-> e, peerConnectionId |-> peerConnectionStats[1]] :
                            e \in msProducers \cup msConsumers }
                     ELSE {})
    /\ UNCHANGED <<msClosed, msTransports, msProducers, msConsumers, mediasoupTransports,
                   mediasoupEntities>>

NextMediasoup ==
    \/ Device_newtransport
    \/ Transport_connectionstatechange
    \/ Transport_close
    \/ Transport_newproducer
    \/ Transport_newconsumer
    \/ Transport_newdataproducer
    \/ Observer_pauseOrResume
    \/ Observer_close
    \/ MediasoupStatsCollector_close
    \/ MediasoupStatsCollector_addOutboundTrack
    \/ AdaptStorageMiddleware

\* A detector that is constructed and never updated.
InitLongPcIdle == InitLongPc({ c \in LpConfigs : ~c.disabled })

\* The detectors are independent objects: each specification runs one of them and leaves
\* the others as constructed.
DefaultAdConfig == CHOOSE c \in AdConfigs : ~c.disabled /\ c.fractionalCorrectionAlertOnThreshold = 100

InitAudioDesync ==
    /\ InitLongPcIdle
    /\ InitMonitorIdle
    /\ InitDesync(AdConfigs)
    /\ InitCongestion
    /\ InitStorage
    /\ InitCrossReferences
    /\ InitEvaluate
    /\ InitSenderIdle
    /\ InitMediasoup

InitCongestionOnly ==
    /\ InitLongPcIdle
    /\ InitMonitorIdle
    /\ InitDesync({DefaultAdConfig})
    /\ InitCongestion
    /\ InitStorage
    /\ InitCrossReferences
    /\ InitEvaluate
    /\ InitSenderIdle
    /\ InitMediasoup

InitStorageOnly ==
    /\ InitLongPcIdle
    /\ InitMonitorIdle
    /\ InitDesync({DefaultAdConfig})
    /\ InitCongestion
    /\ InitStorage
    /\ InitCrossReferences
    /\ InitEvaluate
    /\ InitSenderIdle
    /\ InitMediasoup

SpecDesync == InitAudioDesync /\ [][NextAudioDesync]_vars
SpecCongestion == InitCongestionOnly /\ [][NextCongestion]_vars
SpecStorage == InitStorageOnly /\ [][NextStorage]_vars

InitMonitorOnly ==
    /\ InitLongPcIdle
    /\ InitDesync({DefaultAdConfig})
    /\ InitCongestion
    /\ InitStorage
    /\ InitCrossReferences
    /\ InitEvaluate
    /\ InitSenderIdle
    /\ InitMediasoup
    /\ InitMonitor

SpecMonitor == InitMonitorOnly /\ [][NextMonitor]_vars

\* A monitor constructed without a timer, with any samplingTick and any of the two
\* modelled detectors
InitCycle ==
    InitMonitorWith([collectingPeriodInMs : {None}, samplingTick : SamplingTicks],
                    DetectIssuesSettings)

InitCycleOnly ==
    /\ InitLongPcIdle
    /\ InitDesync({DefaultAdConfig})
    /\ InitCongestion
    /\ InitStorage
    /\ InitCrossReferences
    /\ InitEvaluate
    /\ InitSenderIdle
    /\ InitMediasoup
    /\ InitCycle

SpecCycle == InitCycleOnly /\ [][NextCycle]_vars

\* A monitor constructed without timer, sampling and detectIssues
InitDetectorsOnly ==
    /\ InitLongPcIdle
    /\ InitDesync({DefaultAdConfig})
    /\ InitCongestion
    /\ InitStorage
    /\ InitCrossReferences
    /\ InitEvaluate
    /\ InitSenderIdle
    /\ InitMediasoup
    /\ InitMonitorIdle

SpecDetectors == InitDetectorsOnly /\ [][NextDetectors]_vars

SpecTurn == InitDetectorsOnly /\ [][NextTurn]_vars

SpecEvaluate == InitDetectorsOnly /\ [][NextEvaluate]_vars

InitSenderOnly ==
    /\ InitLongPcIdle
    /\ InitDesync({DefaultAdConfig})
    /\ InitCongestion
    /\ InitStorage
    /\ InitCrossReferences
    /\ InitMonitorIdle
    /\ InitEvaluate
    /\ InitSender
    /\ InitMediasoup

SpecSender == InitSenderOnly /\ [][NextSender]_vars

SpecMediasoup == InitDetectorsOnly /\ [][NextMediasoup]_vars

\* The storage as constructed, or as it is after a cycle has started and ingested a first
\* record for transport t1; nothing else is ingested yet.
InitLookup ==
    \/ InitStorage
    \/ \E stats \in { v \in TransportStatsValues : v.timestamp = 1 } :
          /\ transports = [id \in {"t1"} |-> IceTransportMonitor_new(stats)]
          /\ candidates = [id \in {} |-> None]
          /\ cycle = [open |-> TRUE, fresh |-> {"t1"}, stale |-> {}]
          /\ stLast = [op |-> "create", kind |-> "transport", id |-> "t1", stats |-> stats,
                       repeat |-> FALSE, stale |-> FALSE, pruned |-> {}]

InitLookupOnly ==
    /\ InitLongPcIdle
    /\ InitMonitorIdle
    /\ InitDesync({DefaultAdConfig})
    /\ InitCongestion
    /\ InitLookup
    /\ InitCrossReferences
    /\ InitEvaluate
    /\ InitSenderIdle
    /\ InitMediasoup

SpecLookup == InitLookupOnly /\ [][NextLookup]_vars

InitLongPcOnly ==
    /\ InitMonitorIdle
    /\ InitDesync({DefaultAdConfig})
    /\ InitCongestion
    /\ InitStorage
    /\ InitCrossReferences
    /\ InitEvaluate
    /\ InitSenderIdle
    /\ InitMediasoup
    /\ InitLongPc(LpConfigs)

SpecLongPc == InitLongPcOnly /\ [][NextLongPc]_vars

(***************************************************************************)
(* Claims on AudioDesyncDetector, checked under SpecDesync.                *)
(* After an update, inboundRtp still holds the values that update read     *)
(* (only desync is written), and adLast.wasDesync is the state it found.   *)
(***************************************************************************)

\* corrected-samples delta and received-samples delta of the last update
AdCorrectedDelta ==
    (IF inboundRtp.insertedSamplesForDeceleration = <<>> THEN 0
     ELSE inboundRtp.insertedSamplesForDeceleration[1])
    + (IF inboundRtp.removedSamplesForAcceleration = <<>> THEN 0
       ELSE inboundRtp.removedSamplesForAcceleration[1])
    - prevCorrectedSamples
AdReceivedDelta ==
    IF inboundRtp.receivingAudioSamples = <<>> THEN 0 ELSE inboundRtp.receivingAudioSamples[1]
\* the last operation was an update that computed a fractional correction
AdComputed ==
    /\ adLast.op = "update"
    /\ inboundRtp.kind = "audio"
    /\ ~adConfig.disabled
    /\ AdCorrectedDelta >= 1
    /\ AdReceivedDelta >= 1
AdOn == adConfig.fractionalCorrectionAlertOnThreshold
AdOff == adConfig.fractionalCorrectionAlertOffThreshold

\* C1: hysteresis. An update that finds the track on and computes a fraction above the
\* alert-off threshold (whether or not it is below the alert-on threshold) leaves it on;
\* the track goes from on to off only in an update whose fraction has come down to the
\* alert-off threshold.
C1_Hysteresis ==
    (adLast.op = "update" /\ adLast.wasDesync) =>
        /\ (AdComputed /\ AdOff * (AdCorrectedDelta + AdReceivedDelta) < 1000 * AdCorrectedDelta)
               => inboundRtp.desync
        /\ ~inboundRtp.desync
               => (AdComputed /\ 1000 * AdCorrectedDelta <= AdOff * (AdCorrectedDelta + AdReceivedDelta))

\* C1 witness: an update found the track on, the fraction was strictly between the two
\* thresholds, and the track is still on.
C1_Witness ==
    /\ AdComputed /\ adLast.wasDesync /\ inboundRtp.desync
    /\ 1000 * AdCorrectedDelta < AdOn * (AdCorrectedDelta + AdReceivedDelta)
    /\ AdOff * (AdCorrectedDelta + AdReceivedDelta) < 1000 * AdCorrectedDelta

\* C9: from off, the update turns the track on iff the fraction is strictly greater than
\* the alert-on threshold; 50/(50+450) against 0.1 stays off, 60/(60+450) turns on.
C9_OnIffAboveOnThreshold ==
    /\ (AdComputed /\ ~adLast.wasDesync) =>
           (inboundRtp.desync <=>
                AdOn * (AdCorrectedDelta + AdReceivedDelta) < 1000 * AdCorrectedDelta)
    /\ (AdComputed /\ ~adLast.wasDesync /\ AdOn = 100 /\ AdReceivedDelta = 450) =>
           /\ AdCorrectedDelta = 50 => ~inboundRtp.desync
           /\ AdCorrectedDelta = 60 => inboundRtp.desync

\* C9 witness: the boundary case, fraction exactly 0.1 against the threshold 0.1, from off.
C9_Witness ==
    /\ AdComputed /\ ~adLast.wasDesync /\ ~inboundRtp.desync
    /\ AdOn = 100 /\ AdCorrectedDelta = 50 /\ AdReceivedDelta = 450

\* C10 as claimed: from on, the update turns the track off iff the fraction is strictly
\* less than the alert-off threshold (so a fraction equal to it leaves the track on).
C10_OffIffStrictlyBelowOffThreshold ==
    (AdComputed /\ adLast.wasDesync) =>
        (~inboundRtp.desync <=>
             1000 * AdCorrectedDelta < AdOff * (AdCorrectedDelta + AdReceivedDelta))

\* C10 amended: from on, the update turns the track off iff the fraction is less than or
\* equal to the alert-off threshold; a fraction equal to it turns the track off.
C10_OffIffNotAboveOffThreshold ==
    (AdComputed /\ adLast.wasDesync) =>
        (~inboundRtp.desync <=>
             1000 * AdCorrectedDelta <= AdOff * (AdCorrectedDelta + AdReceivedDelta))

\* C10 witness: the track was on, the fraction equalled the alert-off threshold, and the
\* track is now off.
C10_Witness ==
    /\ AdComputed /\ adLast.wasDesync /\ ~inboundRtp.desync
    /\ 1000 * AdCorrectedDelta = AdOff * (AdCorrectedDelta + AdReceivedDelta)

(***************************************************************************)
(* Claims on CongestionDetector, checked under SpecCongestion.             *)
(***************************************************************************)

\* the peer connections the last update was given
CdVisited == { cdLast.order[i] : i \in 1..Len(cdLast.order) }
\* those of them with at least one outbound rtp limited by bandwidth
CdBandwidthLimited ==
    { id \in CdVisited :
        \E i \in 1..Len(cdLast.input[id].outboundRtps) :
            cdLast.input[id].outboundRtps[i] = "bandwidth" }

\* C2: an update in which some peer connection that was not congested before (or was not
\* known before) shows a bandwidth-limited outbound rtp emits 'congestion' exactly once;
\* an update in which no peer connection becomes congested (those congested merely stay
\* congested) does not emit it.
C2_CongestionEmittedOnce ==
    cdLast.op = "update" =>
        /\ (CdBandwidthLimited \ cdLast.wasCongested # {}) => Len(cdLast.congestion) = 1
        /\ (CdBandwidthLimited \ cdLast.wasCongested = {}) => Len(cdLast.congestion) = 0

\* C2 witness: the update after the one that emitted: a peer connection held congested is
\* given again still bandwidth-limited, nothing else becomes congested, nothing is emitted.
C2_Witness ==
    /\ cdLast.op = "update"
    /\ CdBandwidthLimited # {}
    /\ CdBandwidthLimited \subseteq cdLast.wasCongested
    /\ cdLast.congestion = <<>>

(***************************************************************************)
(* Claims on the entries and the collection cycle, checked under           *)
(* SpecStorage.  In a step that ingests a record, stLast' names the entry  *)
(* and the record; the unprimed entry is the entry before the accept.      *)
(***************************************************************************)

StPresent == DOMAIN transports \cup DOMAIN candidates
StIngested == cycle.fresh \cup cycle.stale

\* C3: after a cycle's commit an entry is present iff it was created or accepted during
\* that cycle.  The visited flag is true after construction and after accept, and the
\* commit's read of it leaves it false.
C3_PresentIffIngestedInCycle ==
    /\ stLast.op = "commit" =>
          /\ \A id \in TransportIds \cup CandidateIds : id \in StPresent <=> id \in StIngested
          /\ \A id \in DOMAIN transports : ~transports[id].visited
          /\ \A id \in DOMAIN candidates : ~candidates[id].visited
    /\ (stLast.op \in {"create", "accept"} /\ stLast.kind = "transport") =>
          transports[stLast.id].visited
    /\ (stLast.op \in {"create", "accept"} /\ stLast.kind = "candidate") =>
          candidates[stLast.id].visited

\* C3 witness: a commit that removed an entry not ingested in the cycle and kept one
\* that was.
C3_Witness ==
    /\ stLast.op = "commit"
    /\ stLast.pruned # {}
    /\ StPresent # {}

\* C5 as claimed: after construction the four delta fields are absent, and after an
\* accept each delta field is present iff the elapsed time was > 0 and the entry held a
\* previous value of the counter (0 included).
C5_DeltaPresentIffElapsedAndPrevious ==
    [][ /\ (stLast'.op = "create" /\ stLast'.kind = "transport") =>
              LET a == transports'[stLast'.id]
              IN  /\ a.deltaPacketsSent = <<>> /\ a.deltaPacketsReceived = <<>>
                  /\ a.deltaBytesSent = <<>> /\ a.deltaBytesReceived = <<>>
        /\ (stLast'.op = "accept" /\ stLast'.kind = "transport") =>
              LET b == transports[stLast'.id]
                  a == transports'[stLast'.id]
                  elapsed == stLast'.stats.timestamp - b.timestamp
              IN  /\ (a.deltaPacketsSent # <<>>) <=> (elapsed > 0 /\ b.packetsSent # <<>>)
                  /\ (a.deltaPacketsReceived # <<>>) <=> (elapsed > 0 /\ b.packetsReceived # <<>>)
                  /\ (a.deltaBytesSent # <<>>) <=> (elapsed > 0 /\ b.bytesSent # <<>>)
                  /\ (a.deltaBytesReceived # <<>>) <=> (elapsed > 0 /\ b.bytesReceived # <<>>)
      ]_vars

C7_StaleAcceptMarksVisited ==
    /\ (stLast.op = "accept" /\ stLast.stale /\ stLast.kind = "transport") =>
          transports[stLast.id].visited
    /\ (stLast.op = "accept" /\ stLast.stale /\ stLast.kind = "candidate") =>
          candidates[stLast.id].visited
    /\ stLast.op = "commit" => cycle.stale \subseteq StPresent

\* C7 witness: after a commit, a transport entry and a candidate entry that were ingested
\* in the cycle only with records of non-positive elapsed time are both present.
C7_Witness ==
    /\ stLast.op = "commit"
    /\ \E id \in TransportIds : id \in cycle.stale \ cycle.fresh /\ id \in DOMAIN transports
    /\ \E id \in CandidateIds : id \in cycle.stale \ cycle.fresh /\ id \in DOMAIN candidates

C11_CorrectedTermIsIntervalDelta ==
    (adLast.op = "update" /\ adLast.computed
        /\ correctedSamples(inboundRtp) >= adLast.seenBefore)
    => adLast.dCorrected = correctedSamples(inboundRtp) - adLast.seenBefore

\* C12: an update whose corrected-samples delta or received-samples delta is below 1
\* leaves the desync state and the start-of-desync time as they were and emits nothing.
C12_SkippedIntervalChangesNothing ==
    (adLast.op = "update"
        /\ (adLast.dCorrected < 1 \/ OrElse(inboundRtp.receivingAudioSamples, 0) < 1))
    => /\ inboundRtp.desync = adLast.wasDesync
       /\ startedDesyncAt = adLast.startedBefore
       /\ adLast.emitted = {}

\* an interval skipped on an audio track that is in desync, with corrections but nothing received
C12_Witness ==
    /\ adLast.op = "update" /\ adLast.read
    /\ adLast.wasDesync /\ IsSome(adLast.startedBefore)
    /\ adLast.dCorrected >= 1
    /\ OrElse(inboundRtp.receivingAudioSamples, 0) < 1

\* C13: 'audio-desync-track' is emitted exactly in the updates that take the track
\* off -> on, the issue exactly in those that take it on -> off, carrying the time elapsed
\* since the off -> on update; the two emissions alternate, 'audio-desync-track' first.
C13_EmissionsFollowTransitions ==
    adLast.op = "update" =>
       /\ ("audio-desync-track" \in adLast.emitted) <=> (~adLast.wasDesync /\ inboundRtp.desync)
       /\ ("issue" \in adLast.emitted) <=> (adLast.wasDesync /\ ~inboundRtp.desync)
       /\ ("issue" \in adLast.emitted) =>
             /\ IsSome(adLast.startedBefore)
             /\ adLast.duration = Some(adNow - adLast.startedBefore[1])
             /\ adLast.emittedBefore = "audio-desync-track"
       /\ ("audio-desync-track" \in adLast.emitted) =>
             /\ adLast.emittedBefore \in {"none", "issue"}
             /\ startedDesyncAt = Some(adNow)

\* an issue with a positive duration, and after it a second 'audio-desync-track'
C13_Witness ==
    /\ adLast.op = "update"
    /\ "audio-desync-track" \in adLast.emitted
    /\ adLast.emittedBefore = "issue"
    /\ adNow > 1

(***************************************************************************)
(* Further claims on CongestionDetector, checked under SpecCongestion.     *)
(* In a step of update, cdLast' is the record of that update, cdLast the   *)
(* record of the update before it and cdStates the states it started from. *)
(***************************************************************************)

\* the pair the claims speak of: the pair selected by one of the transports or, when no
\* transport has a selected pair, the pair with nominated = true; None when there is neither
CdClaimedPair(pc) ==
    IF \E i \in 1..Len(pc.transports) : IsSome(pc.transports[i])
    THEN pc.transports[CHOOSE i \in 1..Len(pc.transports) : IsSome(pc.transports[i])]
    ELSE IF \E i \in 1..Len(pc.iceCandidatePairs) : pc.iceCandidatePairs[i].nominated
    THEN Some(pc.iceCandidatePairs[CHOOSE i \in 1..Len(pc.iceCandidatePairs) :
                                      pc.iceCandidatePairs[i].nominated])
    ELSE None
CdIncomingOf(pair) == IF IsSome(pair) THEN pair[1].availableIncomingBitrate ELSE None
CdOutgoingOf(pair) == IF IsSome(pair) THEN pair[1].availableOutgoingBitrate ELSE None

\* the peer connections the update found newly congested
CdNewlyCongested == CdBandwidthLimited \ cdLast.wasCongested

\* C14 as claimed: in the payload of 'congestion', the ...AfterCongestion values of a newly
\* congested peer connection are the available bitrates of its selected (else nominated)
\* pair, and its ...BeforeCongestion values are the available bitrates of that pair in the
\* preceding update, the last one in which it was not congested.
C14_BitratesOfSelectedPair ==
    [][ (cdLast'.op = "update" /\ cdLast'.congestion # <<>>) =>
        \A id \in CdNewlyCongested' :
           LET st == cdLast'.congestion[1][id]
               pair == CdClaimedPair(cdLast'.input[id])
           IN  /\ st.incomingBitrateAfterCongestion = CdIncomingOf(pair)
               /\ st.outgoingBitrateAfterCongestion = CdOutgoingOf(pair)
               /\ id \in DOMAIN cdStates =>
                     /\ st.incomingBitrateBeforeCongestion = CdIncomingOf(CdClaimedPair(cdLast.input[id]))
                     /\ st.outgoingBitrateBeforeCongestion = CdOutgoingOf(CdClaimedPair(cdLast.input[id]))
      ]_vars

\* C14 amended: each ...AfterCongestion value is the pair's available bitrate when the pair
\* reports one, else the value the state held before the update; the ...BeforeCongestion
\* values are those the state held before the update, which are the pair's of the
\* preceding update when it reported them; a peer connection first seen has none.
C14_BitratesOfSelectedPairWhenReported ==
    [][ (cdLast'.op = "update" /\ cdLast'.congestion # <<>>) =>
        \A id \in CdNewlyCongested' :
           LET st == cdLast'.congestion[1][id]
               pair == CdClaimedPair(cdLast'.input[id])
               old == IF id \in DOMAIN cdStates THEN cdStates[id] ELSE NewPeerConnectionState(id)
           IN  /\ st.incomingBitrateAfterCongestion =
                     IF IsSome(CdIncomingOf(pair)) THEN CdIncomingOf(pair)
                     ELSE old.incomingBitrateAfterCongestion
               /\ st.outgoingBitrateAfterCongestion =
                     IF IsSome(CdOutgoingOf(pair)) THEN CdOutgoingOf(pair)
                     ELSE old.outgoingBitrateAfterCongestion
               /\ st.incomingBitrateBeforeCongestion = old.incomingBitrateBeforeCongestion
               /\ st.outgoingBitrateBeforeCongestion = old.outgoingBitrateBeforeCongestion
               /\ id \notin DOMAIN cdStates =>
                     /\ st.incomingBitrateBeforeCongestion = None
                     /\ st.outgoingBitrateBeforeCongestion = None
               /\ id \in DOMAIN cdStates =>
                     LET prev == CdClaimedPair(cdLast.input[id])
                     IN  /\ IsSome(CdIncomingOf(prev)) =>
                               st.incomingBitrateBeforeCongestion = CdIncomingOf(prev)
                         /\ IsSome(CdOutgoingOf(prev)) =>
                               st.outgoingBitrateBeforeCongestion = CdOutgoingOf(prev)
      ]_vars

\* 'congestion' emitted for pc1, newly congested, whose transport's selected pair (3 in,
\* 4 out) differs from its nominated pair, and whose pair of the update before gave 1 in
C14_Witness ==
    /\ cdLast.op = "update"
    /\ cdLast.congestion # <<>>
    /\ "pc1" \in CdNewlyCongested
    /\ "pc1" \in cdLast.known
    /\ cdLast.congestion[1]["pc1"].incomingBitrateAfterCongestion = Some(3)
    /\ cdLast.congestion[1]["pc1"].outgoingBitrateAfterCongestion = Some(4)
    /\ cdLast.congestion[1]["pc1"].incomingBitrateBeforeCongestion = Some(1)

\* what the claims expect 'alert-state' to carry for one peer connection of the update
CdExpectedAlert(id) ==
    IF id \in CdBandwidthLimited /\ id \notin cdLast.wasCongested THEN <<"on">>
    ELSE IF id \notin CdBandwidthLimited /\ id \in cdLast.wasCongested THEN <<"off">>
    ELSE <<>>
RECURSIVE CdExpectedAlertsFrom(_)
CdExpectedAlertsFrom(i) ==
    IF i > Len(cdLast.order) THEN <<>>
    ELSE CdExpectedAlert(cdLast.order[i]) \o CdExpectedAlertsFrom(i + 1)

\* C15: a peer connection first seen counts as not congested; an update emits
\* 'alert-state' 'on' for a peer connection iff it goes not congested -> congested, 'off'
\* iff it goes congested -> not congested, and nothing for it when the flag is unchanged;
\* afterwards its congested flag is the one the update found.
C15_AlertStateFollowsTransitions ==
    cdLast.op = "update" =>
        /\ cdLast.alertStates = CdExpectedAlertsFrom(1)
        /\ \A id \in CdVisited : cdStates[id].congested = (id \in CdBandwidthLimited)
        /\ \A id \in CdVisited \ cdLast.known : id \notin cdLast.wasCongested

\* one update in which a peer connection leaves congestion, another enters it (first
\* seen) and so 'off' and 'on' are both emitted
C15_Witness ==
    /\ cdLast.op = "update"
    /\ Len(cdLast.order) = 2
    /\ cdLast.alertStates = <<"off", "on">>
    /\ CdVisited \ cdLast.known # {}

(***************************************************************************)
(* Claims on LongPcConnectionEstablishmentDetector, checked under          *)
(* SpecLongPc.  lpEpisode counts the firings of the current connecting     *)
(* episode and tells whether one of its updates saw the threshold reached. *)
(***************************************************************************)

LpInEpisode == connectionState = "connecting" /\ ~lpConfig.disabled

C17_RearmsOnLeavingConnecting ==
    (LpInEpisode /\ ~lpHistory.firedOutside /\ lpEpisode.rearmedAtStart /\ lpEpisode.reached)
    => lpEpisode.fired = 1

\* C18 as claimed: the event is emitted only by an update that observes 'connecting'.
C18_FiresOnlyWhileConnecting ==
    (lpLast.op = "update" /\ lpLast.emitted # {}) => lpLast.observed = "connecting"

(***************************************************************************)
(* Claims on ClientMonitor, checked under SpecMonitor.                     *)
(***************************************************************************)

\* C4 as claimed: a timer tick that finds a collect() pending starts no further
\* collect(), and collect() calls started by the timer never wait side by side.
C4_CollectsNeverOverlap ==
    /\ (cmLast.op = "timer" /\ cmLast.pending > 0) => Len(inflight) <= cmLast.pending
    /\ Cardinality({ i \in DOMAIN inflight : inflight[i].by = "timer" }) <= 1


\* C19 as claimed: createAudioDesyncDetector called with thresholds of which the alert-on
\* one lies below the alert-off one (after the defaults are filled in) raises an error
\* and registers no detector.
C19_MisconfigurationFailsFast ==
    (/\ cmLast.op = "createAudioDesyncDetector"
     /\ ~cmLast.existed
     /\ AudioDesyncThresholds(cmLast.given).fractionalCorrectionAlertOnThreshold
          < AudioDesyncThresholds(cmLast.given).fractionalCorrectionAlertOffThreshold)
    => (cmLast.threw /\ "AudioDesyncDetector" \notin DOMAIN detectors)


\* C20 as claimed: once the monitor is closed no periodic timer is armed, whatever is
\* called afterwards.
C20_ClosedImpliesNoTimer == cmClosed => ~cmTimer

(***************************************************************************)
(* Claims on ClientMonitor's listeners, its collection cycle and its call  *)
(* events.  After a step of collect(), cmLast.steps lists what that step   *)
(* did, in order, and cmLast.sample is the sample it built, if any.        *)
(***************************************************************************)

\* C21 as claimed: after close() no detector created through the monitor is registered,
\* none of them listens to 'stats-collected', and the subscriptions the constructor took
\* on the collectors and the storage are released.
C21_CloseReleasesSubscriptions ==
    cmClosed => /\ detectors = NoDetectors
                /\ listeners.statsCollected = <<>>
                /\ listeners.wiring = {}

\* C22 as claimed: when collectors.collect() resolves for a collect() call that was pending
\* while the monitor was closed, that call does nothing: the storage is not updated, no
\* detector is updated, and none of 'stats-collected', 'sample-created', 'using-turn' is
\* emitted.
C22_InFlightIgnoredAfterClose ==
    (cmLast.op = "resolved" /\ cmClosed) => (cmLast.steps = <<>> /\ cmLast.emitted = <<>>)

UpdatedIn(steps) == { steps[k].by : k \in { k \in DOMAIN steps : steps[k].step = "update" } }

\* C23 as claimed: in a cycle where a detector's update throws, every other registered
\* detector is still updated, the sample is still created if it is due, and collect()
\* returns.
C23_DetectorErrorsIsolated ==
    [][ (cmLast'.op = "resolved" /\ cmLast'.threw)
        => /\ UpdatedIn(cmLast'.steps) = DOMAIN detectors
           /\ (SamplingDue(cmConfig, actualCollectingTick) /\ ~cmClosed) => cmLast'.sample # None
           /\ cmLast'.returned ]_vars

SampleCalled(steps) == \E k \in DOMAIN steps : steps[k].step = "sample"

\* C27: with samplingTick = n > 0 left as constructed, the k-th collect() call that
\* completes calls sample() exactly if k is a multiple of n, and the tick counter is k
\* modulo n afterwards: 0 after each sample() it triggered.
C27_SampleEveryNthCollect ==
    (cmLast.op = "resolved" /\ cmLast.returned /\ Truthy(cmConfig.samplingTick))
    => /\ SampleCalled(cmLast.steps) <=> (completedCollects % cmConfig.samplingTick[1] = 0)
       /\ actualCollectingTick = completedCollects % cmConfig.samplingTick[1]

\* the fourth completed collect() of a monitor with samplingTick 2 has built a sample
C27_Witness ==
    /\ cmLast.op = "resolved"
    /\ cmLast.returned
    /\ cmConfig.samplingTick = Some(2)
    /\ completedCollects = 4
    /\ cmLast.sample # None
    /\ actualCollectingTick = 0

StepsOf(steps, kinds) == { k \in DOMAIN steps : steps[k].step \in kinds }

IssuesIn(sample) ==
    Len(SelectSeq(sample.customCallEvents, LAMBDA e : e = "CLIENT_ISSUE"))

\* C28: in a cycle the storage is updated first, before any detector update; every
\* detector update and every issue it raises comes before the sample is built, and the
\* sample built in the cycle carries the issues raised in it; 'using-turn' comes last.
C28_OrderInsideCycle ==
    cmLast.op = "resolved"
    => /\ StepsOf(cmLast.steps, {"storage.update"}) = {1}
       /\ \A k \in StepsOf(cmLast.steps, {"update", "addIssue"}) :
             \A m \in StepsOf(cmLast.steps, {"sample", "using-turn"}) : k < m
       /\ \A k \in StepsOf(cmLast.steps, {"sample"}) :
             \A m \in StepsOf(cmLast.steps, {"using-turn"}) : k < m
       /\ StepsOf(cmLast.steps, {"using-turn"}) \subseteq {Len(cmLast.steps)}
       /\ cmLast.sample # None
             => IssuesIn(cmLast.sample[1]) >= Cardinality(StepsOf(cmLast.steps, {"addIssue"}))

\* a cycle in which a detector raised an issue, the sample was built with it and
\* 'using-turn' was emitted
C28_Witness ==
    /\ cmLast.op = "resolved"
    /\ StepsOf(cmLast.steps, {"addIssue"}) # {}
    /\ cmLast.sample # None
    /\ IssuesIn(cmLast.sample[1]) >= 1
    /\ cmLast.steps[Len(cmLast.steps)].step = "using-turn"

\* C30 as claimed: once leave() has been called or the monitor is closed, CLIENT_LEFT has
\* been handed to the sampler exactly once.
C30_ClientLeftRecordedOnce ==
    (cmLast.op = "leave" \/ cmClosed) => leftRecorded = 1

\* C31 as claimed: the close() that closes the monitor emits one 'sample-created' if
\* samplingTick is positive, and none if samplingTick is unset or 0.
C31_CloseEmitsFinalSample ==
    [][ (~cmClosed /\ cmClosed')
        => cmLast'.emitted = IF Truthy(cmConfig.samplingTick) /\ 0 < cmConfig.samplingTick[1]
                             THEN <<"sample-created">> ELSE <<>> ]_vars

(***************************************************************************)
(* Claims on the detectors ClientMonitor creates, checked under            *)
(* SpecDetectors.                                                          *)
(***************************************************************************)

ListenersOf(kind) ==
    Cardinality({ k \in DOMAIN listeners.statsCollected : listeners.statsCollected[k] = kind })

\* C32 as claimed: of each kind, at most one detector created by the monitor is alive (a
\* create call finding one returns it), with at most one listener on 'stats-collected'.
C32_AtMostOneDetectorPerKind ==
    \A kind \in DetectorKinds : instances[kind] <= 1 /\ ListenersOf(kind) <= 1

UpdatesOf(steps, kind) ==
    Cardinality({ k \in DOMAIN steps : steps[k].step = "update" /\ steps[k].by = kind })

\* The detectors whose update ClientMonitor is to invoke on 'stats-collected'.
WiredKinds == DetectorKinds \ {"LongPcConnectionEstablishmentDetector"}

\* C33 as claimed: in a collect() whose listeners all return, every detector that is
\* alive has its update invoked exactly once, and a closed one is not updated.
C33_UpdatedOncePerStatsCollected ==
    (cmLast.op = "resolved" /\ ~cmLast.threw)
    => \A kind \in WiredKinds : UpdatesOf(cmLast.steps, kind) = instances[kind]

(***************************************************************************)
(* A claim on what AudioDesyncDetector writes, checked under SpecDesync.   *)
(***************************************************************************)

\* C24 as claimed: an update of the detector modifies no field of the store entry it
\* reads; the desync flag is the detector's own.
C24_UpdateWritesNoEntryField ==
    [][ adLast'.op = "update" => inboundRtp' = inboundRtp ]_vars

(***************************************************************************)
(* A claim on the cross references, checked under SpecLookup.              *)
(***************************************************************************)

\* the sum of the values of a function
RECURSIVE SumOf(_)
SumOf(f) ==
    IF DOMAIN f = {} THEN 0
    ELSE LET k == CHOOSE x \in DOMAIN f : TRUE
         IN  f[k] + SumOf([x \in DOMAIN f \ {k} |-> f[x]])

\* what the remote inbound entry of a layer counts for: its value, 0 when the entry or
\* the value is missing
RemoteTerm(ssrc, field) ==
    IF ssrc \in DOMAIN mappedRemoteInboundRtps
    THEN OrElse(mappedRemoteInboundRtps[ssrc][field], 0) ELSE 0

C26_BitratesNonNegative ==
    \A id \in DOMAIN transports :
        /\ IsSome(transports[id].sendingBitrate)
              => transports[id].sendingBitrate[1].num * transports[id].sendingBitrate[1].den >= 0
        /\ IsSome(transports[id].receivingBitrate)
              => transports[id].receivingBitrate[1].num * transports[id].receivingBitrate[1].den >= 0

\* C29 as claimed: right after the first record for a new id is ingested, for a transport
\* and for a candidate alike, createSample() of the entry carries every field of the
\* record with the ingested value.
C29_FirstIngestionRoundTrip ==
    /\ (stLast.op = "create" /\ stLast.kind = "transport")
          => IceTransportMonitor_createSample(transports[stLast.id]) = stLast.stats
    /\ (stLast.op = "create" /\ stLast.kind = "candidate")
          => IceCandidateMonitor_createSample(candidates[stLast.id]) = stLast.stats

(***************************************************************************)
(* The 'using-turn' events of overlapping collect() calls, checked under   *)
(* SpecTurn.                                                               *)
(***************************************************************************)

\* C35 as claimed: under every interleaving of collect() calls, overlapping ones
\* included, two consecutive 'using-turn' events carry different values.
C35_UsingTurnAlternates ==
    IsSome(usingTurnEvents.previous) => usingTurnEvents.previous # usingTurnEvents.last

(***************************************************************************)
(* The balance of the 'alert-state' events of CongestionDetector, checked  *)
(* under SpecCongestion.                                                   *)
(***************************************************************************)

CountOf(events, value) == Cardinality({ k \in DOMAIN events : events[k] = value })

HeldCongested(states) == { id \in DOMAIN states : states[id].congested }

\* C34 as claimed: the 'on' events minus the 'off' events emitted so far equal the number
\* of peer connections held congested after every update, a congested peer connection
\* that left the enumeration included; as both are 0 at construction, this is that every
\* update emits ('on' - 'off') as many events as the number held congested changes by.
C34_AlertStateBalanced ==
    [][ cdLast'.op = "update"
        => CountOf(cdLast'.alertStates, "on") - CountOf(cdLast'.alertStates, "off")
           = Cardinality(HeldCongested(cdStates')) - Cardinality(HeldCongested(cdStates)) ]_vars

(***************************************************************************)
(* The 'alerts-changed' event of ClientMonitorImpl, checked under          *)
(* SpecEvaluate.                                                           *)
(***************************************************************************)

\* C36: a collect cycle emits 'alerts-changed' at most once, and it emits it exactly
\* when one of the four alert states after the evaluators have run differs from its
\* value before they ran; the payload holds the states after the evaluation.
C36_AlertsChangedIffDiffers ==
    evLast.op = "evaluated"
    => /\ Len(evLast.emitted) <= 1
       /\ (evLast.emitted # <<>>) <=> evLast.differs
       /\ evLast.differs
          => evLast.emitted = <<[event |-> "alerts-changed",
                                 payload |-> [key \in AlertKeySet |-> alerts[key]]]>>

\* An evaluation that found the audio desync alert changed and the stability score
\* alert as it was, and emitted the event.
C36_Witness ==
    /\ evLast.op = "evaluated"
    /\ evLast.differs
    /\ alerts["audio-desync-alert"] = "on"
    /\ alerts["stability-score-alert"] = "off"
    /\ Len(evLast.emitted) = 1

(***************************************************************************)
(* What close() of ClientMonitorImpl sends, checked under SpecSender.      *)
(***************************************************************************)

C38_ProducerLifecycle ==
    /\ producerPhase # "bad"
    /\ ("p1" \in msProducers) <=> (producerPhase = "added")

\* The 'send' transport added last among those the collector was given and that are not
\* closed.
LastAddedOpenSnd ==
    LET snd == { k \in DOMAIN MediasoupTransportIds :
                   /\ Listening(mediasoupTransports[MediasoupTransportIds[k]])
                   /\ mediasoupTransports[MediasoupTransportIds[k]].direction = "send" }
    IN  IF snd = {} THEN None ELSE Some(MediasoupTransportIds[CHOOSE k \in snd : \A j \in snd : j <= k])

\* C39 as claimed: on a collector that is not closed, addOutboundTrack uses the id of the
\* most recently added 'send' transport that is not closed as peerConnectionId, and the
\* storage middleware annotates the streams of the producers and consumers held with
\* that transport.
C39_LastSndTransportUsed ==
    (~msClosed /\ msLast.op \in {"addOutboundTrack", "middleware"})
    => /\ msLast.result = LastAddedOpenSnd
       /\ msLast.op = "middleware"
          => msLast.annotated = IF IsSome(LastAddedOpenSnd)
                                THEN { [stream |-> e, peerConnectionId |-> LastAddedOpenSnd[1]] :
                                       e \in msProducers \cup msConsumers }
                                ELSE {}

\* C40 as claimed: once the collector is closed, no operation and no event of a
\* transport, producer, consumer or data producer makes it call emitCallEvent.
C40_NoCallEventAfterClose ==
    msLast.closedBefore => msLast.emitted = <<>>

====
